---- MODULE Spec2Model ----
(***************************************************************************)
(* A model of aniposelib/cameras.py: the camera parameter vector           *)
(* (get_params / set_params), camera groups and their sub-groups, linear   *)
(* triangulation, the reprojection score, the multi-hypothesis             *)
(* triangulation and the bundle-adjustment driver.                         *)
(*                                                                         *)
(* Scalars are integers.  Not-a-number is the distinguished value NaN and  *)
(* every arithmetic operator below propagates it as IEEE arithmetic does.  *)
(***************************************************************************)
EXTENDS Integers, Sequences, FiniteSets, TLC

\* ------------------------------------------------------------------------
\* Bounds of the model
\* ------------------------------------------------------------------------

\* number of calls made on the camera under test
MaxCalls == 3

\* number of points of an observation tensor
NumPoints == 2

\* largest focal length resize_camera is allowed to produce
MaxFocal == 34

\* ------------------------------------------------------------------------
\* Python / numpy helpers
\* ------------------------------------------------------------------------

Min(a, b) == IF a < b THEN a ELSE b

Max(a, b) == IF a < b THEN b ELSE a

\* s[a:b] of Python: 0-based, half-open, clipped to the length of s
Slice(s, a, b) == SubSeq(s, a + 1, Min(b, Len(s)))

\* np.zeros(n)
Zeros(n) == [i \in 1..n |-> 0]

\* a vector of n pairwise different entries starting at base
Ramp(base, n) == [i \in 1..n |-> base + i - 1]

RECURSIVE Concat(_)
\* np.hstack / np.concatenate of a sequence of vectors
Concat(vs) == IF vs = <<>> THEN <<>> ELSE Head(vs) \o Concat(Tail(vs))

\* ------------------------------------------------------------------------
\* Camera and FisheyeCamera
\* ------------------------------------------------------------------------

Eye3 == <<<<1, 0, 0>>, <<0, 1, 0>>, <<0, 0, 1>>>>

\* Camera.__init__: every field goes through its setter (set_name stores
\* str(name), so name=None is stored as "None"; size=None is the empty tuple)
Camera(matrix, dist, size, rvec, tvec, name, extra_dist) ==
    [kind |-> "pinhole", matrix |-> matrix, dist |-> dist, size |-> size,
     rvec |-> rvec, tvec |-> tvec, name |-> name, extra_dist |-> extra_dist]

\* FisheyeCamera.__init__
FisheyeCamera(matrix, dist, size, rvec, tvec, name, extra_dist) ==
    [kind |-> "fisheye", matrix |-> matrix, dist |-> dist, size |-> size,
     rvec |-> rvec, tvec |-> tvec, name |-> name, extra_dist |-> extra_dist]

set_camera_matrix(c, matrix) == [c EXCEPT !.matrix = matrix]

set_distortions(c, dist) == [c EXCEPT !.dist = dist]

zero_distortions(c) == [c EXCEPT !.dist = [i \in 1..Len(c.dist) |-> 0]]

set_rotation(c, rvec) == [c EXCEPT !.rvec = rvec]

set_translation(c, tvec) == [c EXCEPT !.tvec = tvec]

set_name(c, name) == [c EXCEPT !.name = name]

set_size(c, size) == [c EXCEPT !.size = size]

\* set_focal_length(fx) with fy=None: both diagonal entries become fx
set_focal_length(c, fx) ==
    [c EXCEPT !.matrix[1][1] = fx, !.matrix[2][2] = fx]

\* get_focal_length(both=False): (fx + fy) / 2.0; the model keeps fx + fy even
get_focal_length(c) == (c.matrix[1][1] + c.matrix[2][2]) \div 2

\* resize_camera: matrix * scale with the bottom-right entry put back to 1
resize_camera(c, scale) ==
    [c EXCEPT !.size = <<c.size[1] * scale, c.size[2] * scale>>,
              !.matrix = [i \in 1..3 |-> [j \in 1..3 |->
                             IF i = 3 /\ j = 3 THEN 1
                             ELSE c.matrix[i][j] * scale]]]

\* Camera.get_params(optimize_intrinsics): [ok, v]
\* intr_dist[5:10] = self.dist[:5] broadcasts a 1-vector and raises for any
\* other length below 5
Camera_get_params(c, optimize_intrinsics) ==
    IF ~optimize_intrinsics
    THEN [ok |-> TRUE, v |-> c.rvec \o c.tvec]
    ELSE IF Len(c.dist) >= 5
    THEN [ok |-> TRUE,
          v |-> c.rvec \o c.tvec
                \o <<c.matrix[1][1], c.matrix[2][2], c.matrix[1][3],
                     c.matrix[2][3], c.matrix[1][2]>>
                \o Slice(c.dist, 0, 5)]
    ELSE IF Len(c.dist) = 1
    THEN [ok |-> TRUE,
          v |-> c.rvec \o c.tvec
                \o <<c.matrix[1][1], c.matrix[2][2], c.matrix[1][3],
                     c.matrix[2][3], c.matrix[1][2]>>
                \o [i \in 1..5 |-> c.dist[1]]]
    ELSE [ok |-> FALSE, v |-> <<>>]

\* Camera.set_params(params, optimize_intrinsics): [ok, cam]
\* rvec and tvec are assigned before the intrinsics are read, so an index or
\* unpacking error leaves them changed
Camera_set_params(c, params, optimize_intrinsics) ==
    LET c1 == [c EXCEPT !.rvec = Slice(params, 0, 3),
                        !.tvec = Slice(params, 3, 6)]
    IN  IF ~optimize_intrinsics
        THEN [ok |-> TRUE, cam |-> c1]
        ELSE IF Len(params) < 11 \/ Len(Slice(params, 11, 16)) # 5
        THEN [ok |-> FALSE, cam |-> c1]
        ELSE [ok |-> TRUE,
              cam |-> [c1 EXCEPT
                  !.matrix = <<<<params[7], params[11], params[9]>>,
                               <<0, params[8], params[10]>>,
                               <<0, 0, 1>>>>,
                  !.dist = Slice(params, 11, 16)]]

\* FisheyeCamera.get_params(only_extrinsics): [ok, v]
FisheyeCamera_get_params(c, only_extrinsics) ==
    IF only_extrinsics
    THEN [ok |-> TRUE, v |-> c.rvec \o c.tvec]
    ELSE [ok |-> TRUE,
          v |-> c.rvec \o c.tvec \o <<get_focal_length(c), c.dist[1]>>
                \o (IF c.extra_dist THEN <<c.dist[2]>> ELSE <<>>)]

\* FisheyeCamera.set_params(params, only_extrinsics): [ok, cam]
FisheyeCamera_set_params(c, params, only_extrinsics) ==
    LET c1 == set_translation(set_rotation(c, Slice(params, 0, 3)),
                              Slice(params, 3, 6))
    IN  IF only_extrinsics
        THEN [ok |-> TRUE, cam |-> c1]
        ELSE IF Len(params) < 7
        THEN [ok |-> FALSE, cam |-> c1]
        ELSE IF Len(params) < 8 \/ (c.extra_dist /\ Len(params) < 9)
        THEN [ok |-> FALSE, cam |-> set_focal_length(c1, params[7])]
        ELSE [ok |-> TRUE,
              cam |-> set_distortions(set_focal_length(c1, params[7]),
                     <<params[8],
                       IF c.extra_dist THEN params[9] ELSE 0, 0, 0>>)]

\* cam.get_params(flag) with the flag passed positionally, as the group's
\* bundle adjustment passes it: the first parameter of Camera.get_params is
\* optimize_intrinsics, that of FisheyeCamera.get_params is only_extrinsics
get_params(c, flag) ==
    IF c.kind = "pinhole" THEN Camera_get_params(c, flag)
    ELSE FisheyeCamera_get_params(c, flag)

\* cam.set_params(params, flag) with the flag passed positionally
set_params(c, params, flag) ==
    IF c.kind = "pinhole" THEN Camera_set_params(c, params, flag)
    ELSE FisheyeCamera_set_params(c, params, flag)

\* Camera.copy / FisheyeCamera.copy: a new camera from copies of the arrays
copy(c) ==
    [kind |-> c.kind, matrix |-> c.matrix, dist |-> c.dist, size |-> c.size,
     rvec |-> c.rvec, tvec |-> c.tvec, name |-> c.name,
     extra_dist |-> c.extra_dist]

\* the positional flag value that asks this camera for its intrinsics
WithIntrinsics(c) == c.kind = "pinhole"

\* ------------------------------------------------------------------------
\* Inputs of the camera operations
\* ------------------------------------------------------------------------

RotationInputs == {Ramp(20, 3)}

TranslationInputs == {Ramp(30, 3)}

\* an intrinsic matrix with fx # fy and a skew, and one whose third row was
\* scaled (as a matrix read from a record may be)
MatrixInputs ==
    {<<<<10, 3, 5>>, <<0, 14, 6>>, <<0, 0, 1>>>>,
     <<<<20, 0, 10>>, <<0, 20, 12>>, <<0, 0, 2>>>>}

\* the cameras the constructors build: Camera() and FisheyeCamera() with
\* their default arguments, and a fisheye camera given its four distortions
ConstructedCameras ==
    {Camera(Eye3, Zeros(5), <<>>, Zeros(3), Zeros(3), "None", FALSE)}
    \cup {FisheyeCamera(Eye3, d, <<>>, Zeros(3), Zeros(3), "None", e) :
              d \in {Zeros(4), Ramp(41, 4)}, e \in BOOLEAN}

\* distortion vectors of 4 (fisheye), 5 (pinhole) and 8 (rational) terms
DistInputs == {Ramp(41, 4), Ramp(51, 5), Ramp(61, 8)}

ParamInputs == {Ramp(70, 6), Ramp(70, 9), Ramp(70, 16)}

\* ------------------------------------------------------------------------
\* Not-a-number arithmetic
\* ------------------------------------------------------------------------

\* np.nan: a missing coordinate
NaN == -999999

IsNaN(a) == a = NaN

Add(a, b) == IF IsNaN(a) \/ IsNaN(b) THEN NaN ELSE a + b

Sub(a, b) == IF IsNaN(a) \/ IsNaN(b) THEN NaN ELSE a - b

Abs(a) == IF a < 0 THEN -a ELSE a

\* a < b of IEEE numbers: false as soon as one side is not-a-number
Less(a, b) == ~IsNaN(a) /\ ~IsNaN(b) /\ a < b

\* a / b; the pixel grid of the model keeps every quotient it takes exact, and
\* an inexact one has no value
Div(a, b) ==
    IF IsNaN(a) \/ IsNaN(b) THEN NaN
    ELSE IF a % b = 0 THEN a \div b
    ELSE CHOOSE q \in {} : TRUE

\* np.linalg.norm of a 2-vector
Norm(v) ==
    IF IsNaN(v[1]) \/ IsNaN(v[2]) THEN NaN
    ELSE IF v[2] = 0 THEN Abs(v[1])
    ELSE IF v[1] = 0 THEN Abs(v[2])
    ELSE CHOOSE n \in 0..(Abs(v[1]) + Abs(v[2])) : n * n = v[1] * v[1] + v[2] * v[2]

RECURSIVE Sum(_)
\* np.sum of a vector without not-a-number entries
Sum(v) == IF v = <<>> THEN 0 ELSE Head(v) + Sum(Tail(v))

\* the sub-sequence of s at the indices ixs (s[ixs] with an index list)
Take(s, ixs) == [i \in 1..Len(ixs) |-> s[ixs[i]]]

RECURSIVE Where(_, _)
\* np.where(mask)[0] for a boolean vector: the indices from k on that hold
Where(mask, k) ==
    IF k > Len(mask) THEN <<>>
    ELSE (IF mask[k] THEN <<k>> ELSE <<>>) \o Where(mask, k + 1)

\* an array held by value: every entry computed once, when it is built
Array(s) == s \o <<>>

NaN2 == <<NaN, NaN>>

NaN3 == <<NaN, NaN, NaN>>

\* ------------------------------------------------------------------------
\* Projection, undistortion and the linear solve
\*
\* cv2 and the SVD are outside the repository.  The model gives them the
\* geometry of cameras that look along one axis and differ by a shift along
\* the image x axis: a camera with extrinsics (rvec, tvec) and principal
\* point (cx, cy) sees the point (X, Y, Z) at (X + rvec[0] + tvec[0] + cx,
\* Y + cy), and the least-squares solution of the stacked system is the mean
\* of the back-shifted observations.
\* ------------------------------------------------------------------------

\* get_extrinsics_mat: make_M(rvec, tvec), kept as the pair that determines it
get_extrinsics_mat(c) == [rvec |-> c.rvec, tvec |-> c.tvec]

\* the shift a camera matrix applies along x
Shift(M) == M.rvec[1] + M.tvec[1]

\* undistort_points for one point: pixel to normalised coordinates; a
\* not-a-number in either coordinate makes both not-a-number
undistort_points(c, pt) ==
    IF IsNaN(pt[1]) \/ IsNaN(pt[2]) THEN NaN2
    ELSE <<pt[1] - c.matrix[1][3], pt[2] - c.matrix[2][3]>>

\* Camera.project / FisheyeCamera.project for one point
project(c, p3d) ==
    IF IsNaN(p3d[1]) \/ IsNaN(p3d[2]) \/ IsNaN(p3d[3]) THEN NaN2
    ELSE <<p3d[1] + Shift(get_extrinsics_mat(c)) + c.matrix[1][3],
           p3d[2] + c.matrix[2][3]>>

\* Camera.reprojection_error for one point: observed - projected
Camera_reprojection_error(c, p3d, p2d) ==
    LET proj == project(c, p3d)
    IN  <<Sub(p2d[1], proj[1]), Sub(p2d[2], proj[2])>>

\* triangulate_simple(points, camera_mats): [raised, p3d].  The SVD of a
\* system with a not-a-number entry either raises LinAlgError or yields
\* not-a-number, whichever the linear-algebra build does (onNaN)
triangulate_simple(points, camera_mats, onNaN) ==
    LET num_cams == Len(camera_mats)
        bad == \E i \in 1..num_cams : IsNaN(points[i][1]) \/ IsNaN(points[i][2])
    IN  IF bad
        THEN [raised |-> onNaN = "raise", p3d |-> NaN3]
        ELSE [raised |-> FALSE,
              p3d |-> <<Div(Sum([i \in 1..num_cams |->
                                   points[i][1] - Shift(camera_mats[i])]), num_cams),
                        Div(Sum([i \in 1..num_cams |-> points[i][2]]), num_cams),
                        0>>]

\* ------------------------------------------------------------------------
\* CameraGroup: triangulate and reprojection_error
\* A group is the sequence of its cameras; points is indexed [camera][point]
\* ------------------------------------------------------------------------

\* the body of triangulate's loop for one point: subp is the point's row of
\* every camera; the rows whose x is not missing go to triangulate_simple
\* when there are at least two of them: [raised, p3d]
triangulate_point(subp, cam_mats, onNaN) ==
    LET good == Where(Array([c \in 1..Len(subp) |-> ~IsNaN(subp[c][1])]), 1)
    IN  IF Len(good) >= 2
        THEN triangulate_simple(Take(subp, good), Take(cam_mats, good), onNaN)
        ELSE [raised |-> FALSE, p3d |-> NaN3]

\* what triangulate returns from the results of its loop
triangulate_out(one) ==
    [raised |-> \E ip \in 1..Len(one) : one[ip].raised,
     out |-> Array([ip \in 1..Len(one) |-> one[ip].p3d])]

\* triangulate's loop over the points of the (undistorted) array pts
triangulate_loop(pts, n_points, cam_mats, onNaN) ==
    triangulate_out(Array([ip \in 1..n_points |->
        triangulate_point(Array([c \in 1..Len(pts) |-> pts[c][ip]]),
                          cam_mats, onNaN)]))

\* CameraGroup.triangulate(points, undistort, fast=False) for a CxNx2 array
\* (N = n_points): [raised, out]
triangulate(cameras, points, n_points, undistort, onNaN) ==
    IF Len(points) # Len(cameras) THEN [raised |-> TRUE, out |-> <<>>]
    ELSE triangulate_loop(
             IF undistort
             THEN Array([c \in 1..Len(cameras) |->
                      Array([ip \in 1..n_points |->
                          undistort_points(cameras[c], points[c][ip])])])
             ELSE points,
             n_points,
             Array([c \in 1..Len(cameras) |-> get_extrinsics_mat(cameras[c])]),
             onNaN)

\* out[0] of a one-point result
first_point(r) == [raised |-> r.raised, out |-> r.out[1]]

\* CameraGroup.triangulate for a Cx2 array (one point): [raised, out]
triangulate_one(cameras, pts, undistort, onNaN) ==
    first_point(triangulate(cameras, Array([c \in 1..Len(pts) |-> <<pts[c]>>]),
                            1, undistort, onNaN))

\* np.ones(n)
ones(n) == [i \in 1..n |-> 1]

\* triangulate_weighted(points, camera_mats, weights): [raised, p3d].  Every
\* row of the system is scaled by its camera's weight, so the least-squares
\* solution is the mean of the back-shifted observations weighted by the
\* squares of the weights; a system of zeros has the solution (0, 0, 0)
triangulate_weighted(points, camera_mats, weights, onNaN) ==
    LET num_cams == Len(camera_mats)
        bad == \E i \in 1..num_cams : IsNaN(points[i][1]) \/ IsNaN(points[i][2])
        w2 == Array([i \in 1..num_cams |-> weights[i] * weights[i]])
    IN  IF bad
        THEN [raised |-> onNaN = "raise", p3d |-> NaN3]
        ELSE IF Sum(w2) = 0
        THEN [raised |-> FALSE, p3d |-> <<0, 0, 0>>]
        ELSE [raised |-> FALSE,
              p3d |-> <<Div(Sum([i \in 1..num_cams |->
                            w2[i] * (points[i][1] - Shift(camera_mats[i]))]),
                            Sum(w2)),
                        Div(Sum([i \in 1..num_cams |-> w2[i] * points[i][2]]),
                            Sum(w2)),
                        0>>]

\* weights=None
NoWeights == [ndim |-> 0, w |-> <<>>]

\* the weights of the valid observations of point ip: [raised, w]
weights_of(weights, good, ip) ==
    IF weights.ndim = 0 THEN [raised |-> FALSE, w |-> ones(Len(good))]
    ELSE IF weights.ndim = 1 THEN [raised |-> FALSE, w |-> Take(weights.w, good)]
    ELSE IF weights.ndim = 2
    THEN [raised |-> FALSE, w |-> [i \in 1..Len(good) |-> weights.w[good[i]][ip]]]
    ELSE [raised |-> TRUE, w |-> <<>>]

weighted_more_than_two(n_good) == n_good > 2

\* np.sum(good) >= 2 of triangulate_weighted's loop
weighted_enough(n_good) == n_good >= 2

\* the weighted solve of one point from its valid rows
weighted_solve(subp, cam_mats, good, w, onNaN) ==
    IF w.raised THEN [raised |-> TRUE, p3d |-> NaN3]
    ELSE triangulate_weighted(Take(subp, good), Take(cam_mats, good), w.w, onNaN)

\* the body of triangulate_weighted's loop for the point ip: [raised, p3d]
weighted_point(subp, cam_mats, weights, ip, good, onNaN) ==
    IF weighted_enough(Len(good))
    THEN weighted_solve(subp, cam_mats, good, weights_of(weights, good, ip), onNaN)
    ELSE [raised |-> FALSE, p3d |-> NaN3]

\* triangulate_weighted's loop over the points of the (undistorted) array pts
weighted_loop(pts, n_points, cam_mats, weights, onNaN) ==
    triangulate_out(Array([ip \in 1..n_points |->
        weighted_point(Array([c \in 1..Len(pts) |-> pts[c][ip]]), cam_mats,
            weights, ip,
            Where(Array([c \in 1..Len(pts) |-> ~IsNaN(pts[c][ip][1])]), 1),
            onNaN)]))

\* CameraGroup.triangulate_weighted(points, undistort, weights=weights) for a
\* CxNx2 array: [raised, out]
CameraGroup_triangulate_weighted(cameras, points, n_points, undistort, weights, onNaN) ==
    IF Len(points) # Len(cameras) THEN [raised |-> TRUE, out |-> <<>>]
    ELSE weighted_loop(
             IF undistort
             THEN Array([c \in 1..Len(cameras) |->
                      Array([ip \in 1..n_points |->
                          undistort_points(cameras[c], points[c][ip])])])
             ELSE points,
             n_points,
             Array([c \in 1..Len(cameras) |-> get_extrinsics_mat(cameras[c])]),
             weights, onNaN)

\* CameraGroup.reprojection_error(p3ds, p2ds, mean=False): the CxNx2 residuals
reprojection_error(cameras, p3ds, p2ds) ==
    Array([c \in 1..Len(cameras) |-> Array([ip \in 1..Len(p3ds) |->
        Camera_reprojection_error(cameras[c], p3ds[ip], p2ds[c][ip])])])

\* a faulty mean_error: a single camera is enough for a score
mean_error_of_one(errors_norm) ==
    LET good == Array([c \in 1..Len(errors_norm) |-> ~IsNaN(errors_norm[c])])
        zeroed == Array([c \in 1..Len(errors_norm) |->
                      IF good[c] THEN errors_norm[c] ELSE 0])
        count == Len(Where(good, 1))
    IN  Div(Sum(zeroed), IF count < 1 THEN NaN ELSE count)

\* the mean=True branch for one point: errors_norm is the point's residual
\* norm in every camera
mean_error(errors_norm) ==
    LET n_cams == Len(errors_norm)
        good == Array([c \in 1..n_cams |-> ~IsNaN(errors_norm[c])])
        zeroed == Array([c \in 1..n_cams |->
                      IF good[c] THEN errors_norm[c] ELSE 0])
        count == Len(Where(good, 1))
        denom == IF 2 * count < 3 THEN NaN ELSE count
    IN  Div(Sum(zeroed), denom)

\* the mean=True branch on the residuals
mean_errors(errors, n_points) ==
    Array([ip \in 1..n_points |->
        mean_error(Array([c \in 1..Len(errors) |-> Norm(errors[c][ip])]))])

\* CameraGroup.reprojection_error(p3ds, p2ds, mean=True): one score per point
reprojection_error_mean(cameras, p3ds, p2ds) ==
    mean_errors(reprojection_error(cameras, p3ds, p2ds), Len(p3ds))

\* ------------------------------------------------------------------------
\* CameraGroup: subset_cameras, triangulate_possible, triangulate_ransac
\* ------------------------------------------------------------------------

\* a faulty subset_cameras: as many cameras as asked for, from the front
subset_cameras_from_front(cameras, indices) ==
    Array([i \in 1..Len(indices) |-> copy(cameras[i])])

\* the camera list of subset_cameras(indices): a copy of each chosen camera
subset_cameras(cameras, indices) ==
    Array([i \in 1..Len(indices) |-> copy(cameras[indices[i]])])

\* "no candidate of this camera" in a combination
None == <<>>

\* all_iters[point_ix]: for each camera with a candidate whose x is not
\* missing, cameras ascending, its candidates <<camera, candidate>> ascending
\* and then None
all_iters(points, point_ix) ==
    LET n_cams == Len(points)
        cands == Array([c \in 1..n_cams |->
                     Where(Array([k \in 1..Len(points[c][point_ix]) |->
                               ~IsNaN(points[c][point_ix][k][1])]), 1)])
        cams == Where(Array([c \in 1..n_cams |-> cands[c] # <<>>]), 1)
    IN  Array([i \in 1..Len(cams) |->
            [k \in 1..Len(cands[cams[i]]) |-> <<cams[i], cands[cams[i]][k]>>]
            \o <<None>>])

RECURSIVE product(_)
\* itertools.product(*lists): the last list varies fastest
product(lists) ==
    IF lists = <<>> THEN << <<>> >>
    ELSE LET rest == product(Tail(lists))
             h == Head(lists)
         IN  Concat(Array([i \in 1..Len(h) |->
                       Array([j \in 1..Len(rest) |-> <<h[i]>> \o rest[j]])]))

\* err < threshold for a threshold given as the fraction <<num, den>>
LessFrac(err, threshold) ==
    ~IsNaN(err) /\ err * threshold[2] < threshold[1]

\* the best combination of a point before any was kept
NoBest ==
    [found |-> FALSE, error |-> 0, point |-> NaN3, points |-> <<>>,
     picked |-> <<>>]

\* the state of the loop over the combinations of a point when it is entered
LoopStart == [stopped |-> FALSE, raised |-> FALSE, best_error |-> 200,
              best |-> NoBest]

\* a faulty skipped: two picks are always enough
skipped_below_two(picked, min_cams, n_cams_max) ==
    Len(picked) < 2 /\ Len(picked) # n_cams_max

\* "len(picked) < min_cams and len(picked) != n_cams_max": the combination
\* is passed over
skipped(picked, min_cams, n_cams_max) ==
    Len(picked) < min_cams /\ Len(picked) # n_cams_max

\* a faulty improves: an equal error replaces the best so far
improves_or_equals(err, best_error) ==
    ~IsNaN(err) /\ ~IsNaN(best_error) /\ err <= best_error

\* "err < best_error": the combination becomes the best so far
improves(err, best_error) == Less(err, best_error)

\* the end of one pass of the loop: the combination picked, its observations
\* pts, the cameras cc and the point p3d triangulated from them
\* (tri = [raised, out])
loop_score(loop, picked, pts, cc, tri, threshold) ==
    IF tri.raised THEN [loop EXCEPT !.stopped = TRUE, !.raised = TRUE]
    ELSE
    LET err == reprojection_error_mean(cc, <<tri.out>>,
                   Array([i \in 1..Len(pts) |-> <<pts[i]>>]))[1]
    IN  IF improves(err, loop.best_error)
        THEN [stopped |-> LessFrac(err, threshold), raised |-> FALSE,
              best_error |-> err,
              best |-> [found |-> TRUE, error |-> err, point |-> tri.out,
                        points |-> pts, picked |-> picked]]
        ELSE loop

\* one pass of the loop from the triangulation on
loop_triangulate(loop, picked, pts, cc, undistort, threshold, onNaN) ==
    loop_score(loop, picked, pts, cc,
               triangulate_one(cc, pts, undistort, onNaN), threshold)

\* one pass of the loop over the combinations of a point
loop_pass(loop, cameras, points, point_ix, picked, undistort, min_cams, n_cams_max, threshold, onNaN) ==
    IF skipped(picked, min_cams, n_cams_max) THEN loop
    ELSE loop_triangulate(loop, picked,
             Array([i \in 1..Len(picked) |->
                 points[picked[i][1]][point_ix][picked[i][2]]]),
             subset_cameras(cameras,
                 Array([i \in 1..Len(picked) |-> picked[i][1]])),
             undistort, threshold, onNaN)

RECURSIVE best_combination(_, _, _, _, _, _, _, _, _, _, _)
\* the loop over the combinations of one point, from combination i on
best_combination(loop, cameras, points, point_ix, combos, i, undistort, min_cams, n_cams_max, threshold, onNaN) ==
    IF i > Len(combos) \/ loop.stopped THEN loop
    ELSE best_combination(
             loop_pass(loop, cameras, points, point_ix,
                       SelectSeq(combos[i], LAMBDA q : q # None), undistort,
                       min_cams, n_cams_max, threshold, onNaN),
             cameras, points, point_ix, combos, i + 1, undistort, min_cams,
             n_cams_max, threshold, onNaN)

\* the loop over the combinations all_iters[point_ix] yields
point_loop(cameras, points, point_ix, iters, undistort, min_cams, threshold, onNaN) ==
    best_combination(LoopStart, cameras, points, point_ix, product(iters), 1,
                     undistort, min_cams, Len(iters), threshold, onNaN)

\* a faulty PickOf: the last position of the picked list for every camera
PickOf_last(picked, c) == Len(picked)

\* position of camera c in the picked list, 0 when it was not picked
PickOf(picked, c) ==
    LET hits == Where(Array([i \in 1..Len(picked) |-> picked[i][1] = c]), 1)
    IN  IF hits = <<>> THEN 0 ELSE hits[1]

\* the arrays triangulate_possible fills from the best combination of every
\* point: [raised, out, picked_vals, points_2d, errors]
possible_out(res, n_cams, n_possible) ==
    LET n_points == Len(res)
        pick == Array([point_ix \in 1..n_points |-> Array([c \in 1..n_cams |->
                    PickOf(res[point_ix].best.picked, c)])])
    IN  [raised |-> \E point_ix \in 1..n_points : res[point_ix].raised,
         out |-> Array([point_ix \in 1..n_points |-> res[point_ix].best.point]),
         picked_vals |-> Array([c \in 1..n_cams |->
             Array([point_ix \in 1..n_points |->
                 Array([k \in 1..n_possible |->
                     /\ pick[point_ix][c] # 0
                     /\ res[point_ix].best.picked[pick[point_ix][c]]
                            = <<c, k>>])])]),
         points_2d |-> Array([c \in 1..n_cams |->
             Array([point_ix \in 1..n_points |->
                 IF pick[point_ix][c] = 0 THEN NaN2
                 ELSE res[point_ix].best.points[pick[point_ix][c]]])]),
         errors |-> Array([point_ix \in 1..n_points |->
                       res[point_ix].best.error])]

\* CameraGroup.triangulate_possible for a CxNxPx2 array
triangulate_possible(cameras, points, undistort, min_cams, threshold, onNaN) ==
    IF Len(points) # Len(cameras)
    THEN [raised |-> TRUE, out |-> <<>>, picked_vals |-> <<>>,
          points_2d |-> <<>>, errors |-> <<>>]
    ELSE possible_out(
             Array([point_ix \in 1..Len(points[1]) |->
                 point_loop(cameras, points, point_ix,
                            all_iters(points, point_ix), undistort, min_cams,
                            threshold, onNaN)]),
             Len(points), Len(points[1][1]))

\* CameraGroup.triangulate_ransac for a CxNx2 array: the array reshaped to
\* one candidate per camera, threshold left at its default 0.5
triangulate_ransac(cameras, points, undistort, min_cams, onNaN) ==
    IF Len(points) # Len(cameras)
    THEN [raised |-> TRUE, out |-> <<>>, picked_vals |-> <<>>,
          points_2d |-> <<>>, errors |-> <<>>]
    ELSE triangulate_possible(cameras,
             Array([c \in 1..Len(points) |->
                 Array([ip \in 1..Len(points[c]) |-> <<points[c][ip]>>])]),
             undistort, min_cams, <<1, 2>>, onNaN)

\* ------------------------------------------------------------------------
\* Inputs of the triangulation operations
\* ------------------------------------------------------------------------

\* a calibrated rig of three cameras: two pinhole cameras and a fisheye
\* camera, with different extrinsics and principal points
TriCameras ==
    <<Camera(Eye3, Zeros(5), <<4, 2>>, Zeros(3), Zeros(3), "A", FALSE),
      Camera(<<<<1, 0, 36>>, <<0, 1, 0>>, <<0, 0, 1>>>>, Zeros(5), <<4, 2>>,
             Zeros(3), <<36, 0, 0>>, "B", FALSE),
      FisheyeCamera(Eye3, Zeros(4), <<4, 2>>, <<72, 0, 0>>, Zeros(3), "C", FALSE)>>

\* the pixel at which camera c of the rig sees the world point (X, 0, 0)
See(c, X) == project(TriCameras[c], <<X, 0, 0>>)

\* an observation whose y coordinate alone is missing
HalfMissing(c, X) == <<See(c, X)[1], NaN>>

\* the candidate lists <<first, second>> of each camera for the first point
FirstPointCandidates(c) ==
    IF c = 1
    THEN {<<a, b>> : a \in {NaN2, See(1, 0), HalfMissing(1, 0)},
                     b \in {NaN2, See(1, 36)}}
    ELSE IF c = 2
    THEN {<<a, NaN2>> : a \in {NaN2, See(2, 0), See(2, 36)}}
    ELSE {<<a, NaN2>> : a \in {NaN2, See(3, 0), See(3, 72), See(3, 720)}}

\* the observations [camera] of every further point: seen by no camera, by
\* two cameras that agree, by three of which one disagrees
OtherPointCases ==
    {<<<<NaN2, NaN2>>, <<NaN2, NaN2>>, <<NaN2, NaN2>>>>,
     <<<<See(1, 0), NaN2>>, <<See(2, 0), NaN2>>, <<NaN2, NaN2>>>>,
     <<<<See(1, 0), NaN2>>, <<See(2, 0), NaN2>>, <<See(3, 36), NaN2>>>>}

\* the CxNxPx2 observation tensors, indexed [camera][point][candidate]
ObservationTensors ==
    {[c \in 1..3 |-> [n \in 1..NumPoints |->
         IF n = 1 THEN first[c] ELSE others[n][c]]] :
        first \in {f \in [1..3 -> UNION {FirstPointCandidates(c) : c \in 1..3}] :
                      \A c \in 1..3 : f[c] \in FirstPointCandidates(c)},
        others \in [2..NumPoints -> OtherPointCases]}

\* the CxNx2 array of the first candidates
FirstCandidates(points) ==
    [c \in 1..Len(points) |-> [n \in 1..Len(points[c]) |-> points[c][n][1]]]

\* ------------------------------------------------------------------------
\* State
\* ------------------------------------------------------------------------

VARIABLES
    cam,      \* a camera object driven through its public methods
    prev,     \* that camera as it was when the last set_params was entered
    op,       \* the last call on cam: [name, intr, ok]
    ret,      \* the vector the last get_params returned
    ncalls,   \* number of calls made on cam so far
    gcams,    \* self.cameras of the camera group
    obs,      \* the observation tensor the caller holds
    tcall,    \* the last triangulation or scoring call and what it returned
    bpc,      \* where the bundle_adjust call on the group is
    bargs,    \* its arguments: [p2ds, only_extrinsics]
    bentry,   \* self.cameras as they were when bundle_adjust was entered
    bx0,      \* what _initialize_params_bundle returned: [x0, n_cam_params, p3ds]
    bevals,   \* the parameter vectors the solver has evaluated, in order
    parent,   \* a camera group: [cameras, metadata], metadata a reference
    sub,      \* the group derived from it, or NoGroup
    dicts,    \* the dict objects, by reference
    seen,     \* each group as it was after the last operation on it
    gsteps,   \* number of operations made on the two groups
    rs,       \* the last resample_points call: its arguments and what it returned
    bs,       \* the last set-up of a bundle adjustment: its arguments, x0,
              \* the sparsity pattern and the residuals at x0
    berr,     \* what the last bundle_adjust call returned: <<error>>, or <<>>
              \* when none has returned
    sh,       \* the last call made with a tensor of some number of rows: the
              \* operation, the cameras before and after, and how it ended
    cal,      \* the calibrate_rows call on a group: its position, its
              \* arguments, the cameras before and now, and how it ended
    fcall,    \* the last call of one of the functions modelled at the end: its
              \* position, its name, its arguments and what it returned
    it        \* the bundle_adjust_iter call on a group: its position, its
              \* arguments (given is the tensor as the caller holds it), its
              \* locals and the solves it has made

camVars == <<cam, prev, op, ret, ncalls>>

triVars == <<gcams, obs, tcall>>

baVars == <<bpc, bargs, bentry, bx0, bevals>>

grpVars == <<parent, sub, dicts, seen, gsteps>>

resVars == <<rs>>

bunVars == <<bs>>

iterVars == <<it>>

retVars == <<berr>>

shapeVars == <<sh>>

calibVars == <<cal>>

fnVars == <<fcall>>

\* the state of the operations modelled further down
laterVars == <<resVars, bunVars, iterVars, retVars, shapeVars, calibVars, fnVars>>

\* all state but that of resample_points
besidesRes == <<camVars, triVars, baVars, grpVars, bunVars, iterVars, retVars,
                 shapeVars, calibVars, fnVars>>

\* all state but that of the set-up of a bundle adjustment
besidesBun == <<camVars, triVars, baVars, grpVars, resVars, iterVars, retVars,
                 shapeVars, calibVars, fnVars>>

\* all state but that of the calls made with a tensor of some number of rows
besidesShape == <<camVars, triVars, baVars, grpVars, resVars, bunVars, iterVars,
                  retVars, calibVars, fnVars>>

\* all state but that of calibrate_rows
besidesCalib == <<camVars, triVars, baVars, grpVars, resVars, bunVars, iterVars,
                  retVars, shapeVars, fnVars>>

\* all state but that of the functions modelled at the end
besidesFn == <<camVars, triVars, baVars, grpVars, resVars, bunVars, iterVars,
               retVars, shapeVars, calibVars>>

\* all state but that of bundle_adjust_iter
besidesIter == <<camVars, triVars, baVars, grpVars, resVars, bunVars, retVars,
                 shapeVars, calibVars, fnVars>>

vars == <<camVars, triVars, baVars, grpVars, laterVars>>

\* no call made yet
NoCall ==
    [name |-> "none", undistort |-> FALSE, min_cams |-> 0, threshold |-> <<0, 1>>,
     onNaN |-> "nan", p3ds |-> <<>>, weights |-> NoWeights,
     raised |-> FALSE, out |-> <<>>,
     picked_vals |-> <<>>, points_2d |-> <<>>, errors |-> <<>>]

\* the parts of the state a specification does not use
IdleCam ==
    /\ cam = Camera(Eye3, Zeros(5), <<>>, Zeros(3), Zeros(3), "None", FALSE)
    /\ prev = cam
    /\ op = [name |-> "init", intr |-> FALSE, ok |-> TRUE]
    /\ ret = <<>>
    /\ ncalls = 0

IdleTri ==
    /\ gcams = <<>>
    /\ obs = <<>>
    /\ tcall = NoCall

\* no bundle_adjust call made
NoArgs == [p2ds |-> <<>>, only_extrinsics |-> FALSE]

NoParams == [x0 |-> <<>>, n_cam_params |-> 0, p3ds |-> <<>>]

IdleBA ==
    /\ bpc = "idle"
    /\ bargs = NoArgs
    /\ bentry = <<>>
    /\ bx0 = NoParams
    /\ bevals = <<>>

\* no group
NoGroup == [cameras |-> <<>>, metadata |-> 0, via |-> "none"]

IdleGroup ==
    /\ parent = NoGroup
    /\ sub = NoGroup
    /\ dicts = <<>>
    /\ seen = [parent |-> <<>>, sub |-> <<>>]
    /\ gsteps = 0

\* extra=None: no board data
NoExtra ==
    [given |-> FALSE, objp |-> <<>>, ids |-> <<>>, rvecs |-> <<>>, tvecs |-> <<>>,
     has_rt |-> FALSE, ids_map |-> <<>>]

\* no resample_points call made
NoResample ==
    [called |-> FALSE, imgp |-> <<>>, extra |-> NoExtra, n_samp |-> 0,
     newp |-> <<>>, new_extra |-> NoExtra]

IdleResample == rs = NoResample

\* no bundle adjustment set up
NoBundle ==
    [called |-> FALSE, cameras |-> <<>>, p2ds |-> <<>>, extra |-> NoExtra,
     only_extrinsics |-> FALSE, raised |-> FALSE, x0 |-> <<>>,
     n_cam_params |-> 0, jac |-> [n_errors |-> 0, n_params |-> 0, ones |-> {}],
     fun_raised |-> FALSE, residuals |-> <<>>]

IdleBundle == bs = NoBundle

\* no bundle_adjust_iter call made
NoIter ==
    [pc |-> "idle", cameras |-> <<>>, given |-> <<>>, p2ds_full |-> <<>>,
     extra_full |-> NoExtra,
     n_iters |-> 0, start_mu |-> 0, end_mu |-> 0, n_samp_iter |-> 0,
     n_samp_full |-> 0, error_threshold |-> 0, only_extrinsics |-> FALSE,
     mus |-> <<>>, i |-> 0, p2ds |-> <<>>, extra |-> NoExtra, mu |-> 0,
     good |-> <<>>, p2ds_samp |-> <<>>, extra_samp |-> NoExtra, error |-> 0,
     solves |-> <<>>]

IdleIter == it = NoIter

\* no bundle_adjust call has returned
IdleReturn == berr = <<>>

\* no call with a tensor under way
NoShape ==
    [pc |-> "idle", op |-> "", rows |-> 0, entry |-> <<>>, cameras |-> <<>>,
     raised |-> FALSE]

IdleShape == sh = NoShape

\* no calibrate_rows call under way
NoCalib ==
    [pc |-> "idle", entry |-> <<>>, cameras |-> <<>>, all_rows |-> <<>>,
     init_intrinsics |-> FALSE, init_extrinsics |-> FALSE, k |-> 0,
     raised_by |-> ""]

IdleCalib == cal = NoCalib

\* none of the functions modelled at the end has been called
NoFcall == [pc |-> "idle", name |-> "", args |-> <<>>, out |-> <<>>]

IdleFn == fcall = NoFcall

IdleLater ==
    /\ IdleResample
    /\ IdleBundle
    /\ IdleIter
    /\ IdleReturn
    /\ IdleShape
    /\ IdleCalib
    /\ IdleFn

\* ------------------------------------------------------------------------
\* The camera's public methods, one action each
\* ------------------------------------------------------------------------

InitCam ==
    /\ cam \in ConstructedCameras
    /\ prev = cam
    /\ op = [name |-> "init", intr |-> FALSE, ok |-> TRUE]
    /\ ret = <<>>
    /\ ncalls = 0
    /\ IdleTri
    /\ IdleBA
    /\ IdleGroup
    /\ IdleLater

\* a call that does not go through set_params
Call(name, intr, ok, newcam, newret) ==
    /\ ncalls < MaxCalls
    /\ ncalls' = ncalls + 1
    /\ prev' = newcam
    /\ cam' = newcam
    /\ op' = [name |-> name, intr |-> intr, ok |-> ok]
    /\ ret' = newret
    /\ UNCHANGED <<triVars, baVars, grpVars, laterVars>>

\* a call that ends in set_params
CallSet(name, intr, ok, newcam, newret) ==
    /\ ncalls < MaxCalls
    /\ ncalls' = ncalls + 1
    /\ prev' = cam
    /\ cam' = newcam
    /\ op' = [name |-> name, intr |-> intr, ok |-> ok]
    /\ ret' = newret
    /\ UNCHANGED <<triVars, baVars, grpVars, laterVars>>

CamSetCameraMatrix ==
    \E m \in MatrixInputs :
        Call("set_camera_matrix", FALSE, TRUE, set_camera_matrix(cam, m), <<>>)

CamSetFocalLength ==
    Call("set_focal_length", FALSE, TRUE, set_focal_length(cam, 16), <<>>)

CamSetDistortions ==
    \E d \in DistInputs :
        Call("set_distortions", FALSE, TRUE, set_distortions(cam, d), <<>>)

CamZeroDistortions ==
    Call("zero_distortions", FALSE, TRUE, zero_distortions(cam), <<>>)

CamSetRotation ==
    \E r \in RotationInputs :
        Call("set_rotation", FALSE, TRUE, set_rotation(cam, r), <<>>)

CamSetTranslation ==
    \E t \in TranslationInputs :
        Call("set_translation", FALSE, TRUE, set_translation(cam, t), <<>>)

CamSetSize ==
    Call("set_size", FALSE, TRUE, set_size(cam, <<4, 2>>), <<>>)

\* resize_camera(2); a camera without a size raises before anything is set
CamResizeCamera ==
    /\ cam.matrix[1][1] * 2 <= MaxFocal
    /\ cam.matrix[2][2] * 2 <= MaxFocal
    /\ IF cam.size = <<>>
       THEN Call("resize_camera", FALSE, FALSE, cam, <<>>)
       ELSE Call("resize_camera", FALSE, TRUE, resize_camera(cam, 2), <<>>)

\* get_params, with or without the intrinsics
CamGetParams ==
    \E intr \in BOOLEAN :
        LET r == get_params(cam, intr = WithIntrinsics(cam))
        IN  Call("get_params", intr, r.ok, cam, r.v)

\* set_params with a vector of the caller, with or without the intrinsics
CamSetParams ==
    \E intr \in BOOLEAN, p \in ParamInputs :
        LET r == set_params(cam, p, intr = WithIntrinsics(cam))
        IN  CallSet("set_params", intr, r.ok, r.cam, <<>>)

\* cam.set_params(cam.get_params(f), f)
CamRoundTrip ==
    \E intr \in BOOLEAN :
        LET f == (intr = WithIntrinsics(cam))
            g == get_params(cam, f)
        IN  IF g.ok
            THEN LET r == set_params(cam, g.v, f)
                 IN  CallSet("round_trip", intr, r.ok, r.cam, g.v)
            ELSE Call("round_trip", intr, FALSE, cam, <<>>)

NextCam ==
    \/ CamSetCameraMatrix
    \/ CamSetFocalLength
    \/ CamSetDistortions
    \/ CamZeroDistortions
    \/ CamSetRotation
    \/ CamSetTranslation
    \/ CamSetSize
    \/ CamResizeCamera
    \/ CamGetParams
    \/ CamSetParams
    \/ CamRoundTrip

SpecCam == InitCam /\ [][NextCam]_vars

\* ------------------------------------------------------------------------
\* Triangulation and scoring calls on a calibrated group, one action each.
\* The calls are made one after the other; none of them writes to the group.
\* ------------------------------------------------------------------------

InitTri ==
    /\ gcams = TriCameras
    /\ obs \in ObservationTensors
    /\ tcall = NoCall
    /\ IdleCam
    /\ IdleBA
    /\ IdleGroup
    /\ IdleLater

OnNaN == {"raise", "nan"}

\* the fractions 0.5 (the default) and 18
Thresholds == {<<1, 2>>, <<18, 1>>}

\* cgroup.triangulate(points, undistort) on the first candidates
Triangulate ==
    \E undistort \in BOOLEAN, onNaN \in OnNaN :
        \E r \in {triangulate(gcams, FirstCandidates(obs), NumPoints,
                              undistort, onNaN)} :
            /\ tcall = NoCall
            /\ tcall' = [NoCall EXCEPT !.name = "triangulate",
                            !.undistort = undistort, !.onNaN = onNaN,
                            !.raised = r.raised,
                            !.out = IF r.raised THEN <<>> ELSE r.out]
            /\ UNCHANGED <<gcams, obs, camVars, baVars, grpVars, laterVars>>

\* the weights a caller passes: none, one per camera, one per observation
WeightInputs ==
    {NoWeights,
     [ndim |-> 1, w |-> <<1, 1, 1>>],
     [ndim |-> 1, w |-> <<1, 0, 1>>],
     [ndim |-> 1, w |-> <<0, 0, 0>>],
     [ndim |-> 2, w |-> [c \in 1..3 |-> [n \in 1..NumPoints |-> 1]]],
     [ndim |-> 2, w |-> [c \in 1..3 |-> [n \in 1..NumPoints |->
                            IF c = n THEN 0 ELSE 1]]],
     [ndim |-> 3, w |-> <<>>]}

\* cgroup.triangulate_weighted(points, undistort, weights=weights) on the
\* first candidates
TriangulateWeighted ==
    /\ tcall = NoCall
    /\ \E undistort \in BOOLEAN, onNaN \in OnNaN, weights \in WeightInputs :
           \E r \in {CameraGroup_triangulate_weighted(gcams, FirstCandidates(obs),
                         NumPoints, undistort, weights, onNaN)} :
               tcall' = [NoCall EXCEPT !.name = "triangulate_weighted",
                            !.undistort = undistort, !.onNaN = onNaN,
                            !.weights = weights,
                            !.raised = r.raised,
                            !.out = IF r.raised THEN <<>> ELSE r.out]
    /\ UNCHANGED <<gcams, obs, camVars, baVars, grpVars, laterVars>>

\* the 3D points a caller scores: those triangulate returned, one fixed
\* point for every observation, or missing points
ScoredPoints ==
    {triangulate(gcams, FirstCandidates(obs), NumPoints, TRUE, "nan").out,
     [n \in 1..NumPoints |-> <<0, 0, 0>>],
     [n \in 1..NumPoints |-> NaN3]}

\* cgroup.reprojection_error(p3ds, p2ds, mean=True) on the first candidates
ReprojectionErrorMean ==
    \E p3ds \in ScoredPoints :
        /\ tcall = NoCall
        /\ tcall' = [NoCall EXCEPT !.name = "reprojection_error_mean",
                        !.p3ds = p3ds,
                        !.out = reprojection_error_mean(gcams, p3ds,
                                                        FirstCandidates(obs))]
        /\ UNCHANGED <<gcams, obs, camVars, baVars, grpVars, laterVars>>

\* what triangulate_possible and triangulate_ransac leave with the caller
Returned(name, undistort, min_cams, threshold, onNaN, r) ==
    [NoCall EXCEPT !.name = name, !.undistort = undistort,
        !.min_cams = min_cams, !.threshold = threshold, !.onNaN = onNaN,
        !.raised = r.raised,
        !.out = IF r.raised THEN <<>> ELSE r.out,
        !.picked_vals = IF r.raised THEN <<>> ELSE r.picked_vals,
        !.points_2d = IF r.raised THEN <<>> ELSE r.points_2d,
        !.errors = IF r.raised THEN <<>> ELSE r.errors]

\* cgroup.triangulate_possible(points, undistort, min_cams, threshold)
TriangulatePossible ==
    \E undistort \in BOOLEAN, min_cams \in 2..3, threshold \in Thresholds,
       onNaN \in OnNaN :
        /\ tcall = NoCall
        /\ tcall' = Returned("triangulate_possible", undistort, min_cams,
                        threshold, onNaN,
                        triangulate_possible(gcams, obs, undistort, min_cams,
                                             threshold, onNaN))
        /\ UNCHANGED <<gcams, obs, camVars, baVars, grpVars, laterVars>>

\* cgroup.triangulate_ransac(points, undistort, min_cams) on the first
\* candidates
TriangulateRansac ==
    \E undistort \in BOOLEAN, min_cams \in 2..3, onNaN \in OnNaN :
        /\ tcall = NoCall
        /\ tcall' = Returned("triangulate_ransac", undistort, min_cams,
                        <<1, 2>>, onNaN,
                        triangulate_ransac(gcams, FirstCandidates(obs),
                                           undistort, min_cams, onNaN))
        /\ UNCHANGED <<gcams, obs, camVars, baVars, grpVars, laterVars>>

\* the caller is done with what the call returned; the group is as it was
TriReturn ==
    /\ tcall # NoCall
    /\ tcall' = NoCall
    /\ UNCHANGED <<gcams, obs, camVars, baVars, grpVars, laterVars>>

NextTri ==
    \/ Triangulate
    \/ TriangulateWeighted
    \/ ReprojectionErrorMean
    \/ TriangulatePossible
    \/ TriangulateRansac
    \/ TriReturn

SpecTri == InitTri /\ [][NextTri]_vars

\* ------------------------------------------------------------------------
\* Python and numpy statistics, and CameraGroup.average_error
\* ------------------------------------------------------------------------

\* Python's max(a, b): a unless b > a
PyMax(a, b) == IF Less(a, b) THEN b ELSE a

\* Python's min(a, b): a unless b < a
PyMin(a, b) == IF Less(b, a) THEN b ELSE a

\* np.sort of a vector without not-a-number entries
np_sort(v) == SortSeq(v, LAMBDA a, b : a < b)

\* the q-th percentile of the sorted vector a by linear interpolation
percentile_sorted(a, q) ==
    LET k == ((Len(a) - 1) * q) \div 100
        r == ((Len(a) - 1) * q) % 100
    IN  IF r = 0 THEN a[k + 1]
        ELSE a[k + 1] + Div(r * (a[k + 2] - a[k + 1]), 100)

\* np.percentile(v, q): not-a-number as soon as an entry is
np_percentile(v, q) ==
    IF \E n \in 1..Len(v) : IsNaN(v[n]) THEN NaN
    ELSE percentile_sorted(np_sort(v), q)

\* the middle of the sorted vector a
median_sorted(a) ==
    IF Len(a) % 2 = 1 THEN a[(Len(a) + 1) \div 2]
    ELSE Div(a[Len(a) \div 2] + a[Len(a) \div 2 + 1], 2)

\* np.median(v): not-a-number for an empty vector or one with such an entry
np_median(v) ==
    IF v = <<>> \/ \E n \in 1..Len(v) : IsNaN(v[n]) THEN NaN
    ELSE median_sorted(np_sort(v))

\* np.mean(v)
np_mean(v) ==
    IF v = <<>> \/ \E n \in 1..Len(v) : IsNaN(v[n]) THEN NaN
    ELSE Div(Sum(v), Len(v))

\* the number of points of a CxNx2 array
n_points_of(p2ds) == IF p2ds = <<>> THEN 0 ELSE Len(p2ds[1])

\* average_error(p2ds, median): the mean or the median of the mean
\* reprojection errors of the points triangulated from p2ds
average_error(cameras, p2ds, median) ==
    LET errors == reprojection_error_mean(cameras,
                      triangulate(cameras, p2ds, n_points_of(p2ds), TRUE, "nan").out,
                      p2ds)
    IN  IF median THEN np_median(errors) ELSE np_mean(errors)

\* ------------------------------------------------------------------------
\* CameraGroup.bundle_adjust
\*
\* scipy's least_squares is outside the repository: it calls the residual
\* function at x0 first and then at vectors of its choice, and returns one of
\* the vectors it has evaluated.  The vectors it may try are x0 itself, x0
\* moved in every entry, and x0 moved in one entry.
\* ------------------------------------------------------------------------

\* p3ds.ravel()
ravel(p3ds) == Concat(p3ds)

\* _initialize_params_bundle(p2ds, extra=None, only_extrinsics):
\* [ok, x0, n_cam_params, p3ds]
initialize_params_bundle(cameras, p2ds, n_points, only_extrinsics) ==
    LET got == Array([i \in 1..Len(cameras) |->
                   get_params(cameras[i], only_extrinsics)])
        cam_params == Concat(Array([i \in 1..Len(cameras) |-> got[i].v]))
        p3ds == triangulate(cameras, p2ds, n_points, TRUE, "nan").out
    IN  [ok |-> \A i \in 1..Len(cameras) : got[i].ok,
         x0 |-> cam_params \o ravel(p3ds),
         n_cam_params |-> Len(cam_params) \div Len(cameras),
         p3ds |-> p3ds]

RECURSIVE set_all_params(_, _, _, _, _)
\* "for i, cam in enumerate(self.cameras): cam.set_params(params[a:b],
\* only_extrinsics)" from camera i on: [ok, cameras]; the loop ends at the
\* first camera whose set_params raises
set_all_params(cameras, params, n_cam_params, only_extrinsics, i) ==
    IF i > Len(cameras) THEN [ok |-> TRUE, cameras |-> cameras]
    ELSE LET r == set_params(cameras[i],
                             Slice(params, (i - 1) * n_cam_params,
                                   i * n_cam_params),
                             only_extrinsics)
         IN  IF r.ok
             THEN set_all_params([cameras EXCEPT ![i] = r.cam], params,
                                 n_cam_params, only_extrinsics, i + 1)
             ELSE [ok |-> FALSE, cameras |-> [cameras EXCEPT ![i] = r.cam]]

\* the 3D points _error_fun_bundle reads from params
p3ds_test(params, n_cams, n_cam_params, n_points) ==
    LET sub0 == n_cam_params * n_cams
        flat == Slice(params, sub0, sub0 + n_points * 3)
    IN  [ip \in 1..(Len(flat) \div 3) |-> Slice(flat, (ip - 1) * 3, ip * 3)]

\* x moved by d in every entry
MoveAll(x, d) == [k \in 1..Len(x) |-> Add(x[k], d)]

\* x moved by d in entry k
MoveOne(x, k, d) == [x EXCEPT ![k] = Add(x[k], d)]

\* the vectors the solver may try after x0
Trials(x0) ==
    {x0, MoveAll(x0, 2)} \cup {MoveOne(x0, k, 2) : k \in {7, Len(x0)}}

\* cameras of both classes, each with parameters of its own
BACamera(kind, i) ==
    IF kind = "pinhole"
    THEN Camera(<<<<10 * i, i, 36 * i>>, <<0, 12 * i, 6 * i>>, <<0, 0, 1>>>>,
                Ramp(40 * i, 5), <<4, 2>>, Ramp(20 * i, 3), Ramp(30 * i, 3),
                "cam", FALSE)
    ELSE FisheyeCamera(<<<<10 * i, 0, 36 * i>>, <<0, 10 * i, 6 * i>>, <<0, 0, 1>>>>,
                       <<40 * i, 40 * i + 1, 0, 0>>, <<4, 2>>, Ramp(20 * i, 3),
                       Ramp(30 * i, 3), "cam", kind = "fisheye_extra")

CameraKinds == {"pinhole", "fisheye", "fisheye_extra"}

\* the groups bundle_adjust is called on: two cameras of any classes
BAGroups ==
    {<<BACamera(k1, 1), BACamera(k2, 2)>> : k1 \in CameraKinds, k2 \in CameraKinds}

\* number of points in the p2ds array
NumBAPoints == 1

\* a CxNx2 array: world point n at (36 n, 0, 0) as every camera sees it, and
\* without the observations of the last camera when it is not all_seen
BAPoints(cameras, all_seen) ==
    [c \in 1..Len(cameras) |-> [n \in 1..NumBAPoints |->
        IF all_seen \/ c < Len(cameras)
        THEN project(cameras[c], <<36 * n, 0, 0>>)
        ELSE NaN2]]

\* residual evaluations the solver makes at most
MaxEvals == 2

InitBA ==
    /\ gcams \in BAGroups
    /\ obs = <<>>
    /\ tcall = NoCall
    /\ IdleBA
    /\ IdleCam
    /\ IdleGroup
    /\ IdleLater

\* bundle_adjust(p2ds, only_extrinsics=...) up to the call of least_squares
BAStart ==
    \E only_extrinsics \in BOOLEAN, all_seen \in BOOLEAN :
        \E r \in {initialize_params_bundle(gcams, BAPoints(gcams, all_seen),
                                           NumBAPoints, only_extrinsics)} :
            /\ bpc = "idle"
            /\ bpc' = IF r.ok THEN "solving" ELSE "raised"
            /\ bargs' = [p2ds |-> BAPoints(gcams, all_seen),
                         only_extrinsics |-> only_extrinsics]
            /\ bentry' = gcams
            /\ bx0' = [x0 |-> r.x0, n_cam_params |-> r.n_cam_params,
                       p3ds |-> r.p3ds]
            /\ UNCHANGED <<gcams, obs, tcall, bevals, camVars, grpVars, laterVars>>

\* one call of _error_fun_bundle by the solver: the cameras are set from
\* their blocks of params
BAEval ==
    \E params \in (IF bevals = <<>> THEN {bx0.x0} ELSE Trials(bx0.x0)) :
        \E r \in {set_all_params(gcams, params, bx0.n_cam_params,
                                 bargs.only_extrinsics, 1)} :
            /\ bpc = "solving"
            /\ Len(bevals) < MaxEvals
            /\ gcams' = r.cameras
            /\ bevals' = Append(bevals, params)
            /\ bpc' = IF r.ok THEN "solving" ELSE "raised"
            /\ UNCHANGED <<obs, tcall, bargs, bentry, bx0, camVars, grpVars, laterVars>>

\* a faulty commit: the cameras stay as the last residual evaluation left them
commit_nothing(cameras, best_params, n_cam_params, only_extrinsics) ==
    [ok |-> TRUE, cameras |-> cameras]

\* the loop that writes best_params into the cameras: [ok, cameras]
commit(cameras, best_params, n_cam_params, only_extrinsics) ==
    set_all_params(cameras, best_params, n_cam_params, only_extrinsics, 1)

\* least_squares returns one of the vectors it has evaluated, bundle_adjust
\* commits it to the cameras and returns their average error
BAReturn ==
    /\ bpc = "solving"
    /\ \E k \in 1..Len(bevals) :
           \E r \in {commit(gcams, bevals[k], bx0.n_cam_params,
                            bargs.only_extrinsics)} :
               /\ gcams' = r.cameras
               /\ bevals' = Append(bevals, bevals[k])
               /\ bpc' = IF r.ok THEN "done" ELSE "raised"
               /\ berr' = IF r.ok
                          THEN <<average_error(r.cameras, bargs.p2ds, FALSE)>>
                          ELSE berr
    /\ UNCHANGED <<obs, tcall, bargs, bentry, bx0, camVars, grpVars, resVars,
                   bunVars, iterVars, shapeVars, calibVars, fnVars>>

\* least_squares raises instead of returning: before the first evaluation
\* (arguments it rejects), after it (residuals that are not finite at x0) or
\* out of a later one; bundle_adjust has no handler, the cameras stay as the
\* last evaluation set them
BASolverRaises ==
    /\ bpc = "solving"
    /\ bpc' = "raised"
    /\ UNCHANGED <<gcams, obs, tcall, bargs, bentry, bx0, bevals, camVars,
                   grpVars, laterVars>>

NextBA ==
    \/ BAStart
    \/ BAEval
    \/ BAReturn
    \/ BASolverRaises

SpecBA == InitBA /\ [][NextBA]_vars

\* ------------------------------------------------------------------------
\* Groups derived from a group
\*
\* A group is [cameras, metadata]: the list of its cameras, which are values
\* of their own (every array of a camera is copied when the camera is), and
\* the reference of its metadata dict.
\* ------------------------------------------------------------------------

\* CameraGroup(cameras, metadata)
CameraGroup(cameras, metadata, via) ==
    [cameras |-> cameras, metadata |-> metadata, via |-> via]

\* get_names
get_names(g) == [i \in 1..Len(g.cameras) |-> g.cameras[i].name]

\* set_names(names): zip stops at the shorter list
set_names(g, names) ==
    [g EXCEPT !.cameras = [i \in 1..Len(g.cameras) |->
        IF i <= Len(names) THEN set_name(g.cameras[i], names[i])
        ELSE g.cameras[i]]]

\* set_rotations(rvecs)
set_rotations(g, rvecs) ==
    [g EXCEPT !.cameras = [i \in 1..Len(g.cameras) |->
        IF i <= Len(rvecs) THEN set_rotation(g.cameras[i], rvecs[i])
        ELSE g.cameras[i]]]

\* set_translations(tvecs)
set_translations(g, tvecs) ==
    [g EXCEPT !.cameras = [i \in 1..Len(g.cameras) |->
        IF i <= Len(tvecs) THEN set_translation(g.cameras[i], tvecs[i])
        ELSE g.cameras[i]]]

\* resize_cameras(scale)
resize_cameras(g, scale) ==
    [g EXCEPT !.cameras = [i \in 1..Len(g.cameras) |->
        resize_camera(g.cameras[i], scale)]]

\* CameraGroup.subset_cameras(indices): copies of the cameras, and the
\* metadata of this group itself
group_subset_cameras(g, indices) ==
    CameraGroup(subset_cameras(g.cameras, indices), g.metadata, "subset")

\* cur_names_dict of subset_cameras_names: the last camera of a name wins
names_dict(g, name) ==
    LET hits == {i \in 1..Len(g.cameras) : g.cameras[i].name = name}
    IN  IF hits = {} THEN 0 ELSE CHOOSE i \in hits : \A j \in hits : j <= i

\* CameraGroup.subset_cameras_names(names): [ok, group]
subset_cameras_names(g, names) ==
    IF \E k \in 1..Len(names) : names_dict(g, names[k]) = 0
    THEN [ok |-> FALSE, group |-> NoGroup]
    ELSE [ok |-> TRUE,
          group |-> group_subset_cameras(g,
                        [k \in 1..Len(names) |-> names_dict(g, names[k])])]

\* what a caller can read from a group
Observable(g, heap) ==
    IF g = NoGroup THEN <<>>
    ELSE [cameras |-> g.cameras, metadata |-> heap[g.metadata]]

\* the group the calibration produced: two named cameras and its metadata
GroupCameras ==
    <<Camera(Eye3, Zeros(5), <<4, 2>>, Zeros(3), Zeros(3), "A", FALSE),
      FisheyeCamera(Eye3, Zeros(4), <<4, 2>>, Ramp(20, 3), Zeros(3), "B", FALSE)>>

MetadataKeys == {"adjusted", "error"}

\* operations made on the two groups at most
MaxGroupOps == 3

InitGroup ==
    /\ parent = CameraGroup(GroupCameras, 1, "init")
    /\ sub = NoGroup
    /\ dicts = <<[k \in MetadataKeys |-> 0]>>
    /\ seen = [parent |-> Observable(CameraGroup(GroupCameras, 1, "init"),
                                     <<[k \in MetadataKeys |-> 0]>>),
               sub |-> <<>>]
    /\ gsteps = 0
    /\ IdleCam
    /\ IdleTri
    /\ IdleBA
    /\ IdleLater

\* a group is derived: it is seen as it is now
Derive(g, heap) ==
    /\ gsteps < MaxGroupOps
    /\ gsteps' = gsteps + 1
    /\ sub' = g
    /\ dicts' = heap
    /\ seen' = [seen EXCEPT !.sub = Observable(g, heap)]
    /\ UNCHANGED <<parent, camVars, triVars, baVars, laterVars>>

\* sub = parent.subset_cameras(indices)
SubsetCameras ==
    \E indices \in {<<1>>, <<2>>, <<1, 2>>, <<2, 1>>} :
        Derive(group_subset_cameras(parent, indices), dicts)

\* sub = parent.subset_cameras_names(names); an unknown name raises
SubsetCamerasNames ==
    \E names \in {<<"A">>, <<"B", "A">>, <<"Z">>} :
        LET r == subset_cameras_names(parent, names)
        IN  IF r.ok THEN Derive(r.group, dicts) ELSE Derive(sub, dicts)

\* sub = parent.copy(): copies of the cameras and a copy of the dict
GroupCopy ==
    Derive(CameraGroup(subset_cameras(parent.cameras, <<1, 2>>),
                       Len(dicts) + 1, "copy"),
           Append(dicts, dicts[parent.metadata]))

\* an operation on the parent (side = "parent") or on the derived group that
\* leaves the group g and the dicts heap; that group is seen as it is now
Mutate(side, g, heap) ==
    /\ gsteps < MaxGroupOps
    /\ gsteps' = gsteps + 1
    /\ sub # NoGroup
    /\ parent' = IF side = "parent" THEN g ELSE parent
    /\ sub' = IF side = "sub" THEN g ELSE sub
    /\ dicts' = heap
    /\ seen' = [seen EXCEPT ![side] = Observable(g, heap)]
    /\ UNCHANGED <<camVars, triVars, baVars, laterVars>>

Sides == {"parent", "sub"}

GroupOf(side) == IF side = "parent" THEN parent ELSE sub

\* group.set_rotations(...): camera parameters
GroupSetRotations ==
    \E side \in Sides :
        Mutate(side, set_rotations(GroupOf(side), <<Ramp(50, 3), Ramp(60, 3)>>),
               dicts)

\* group.set_names(...)
GroupSetNames ==
    \E side \in Sides :
        Mutate(side, set_names(GroupOf(side), <<"L", "R">>), dicts)

\* group.resize_cameras(2): sizes and intrinsic matrices
GroupResizeCameras ==
    \E side \in Sides :
        Mutate(side, resize_cameras(GroupOf(side), 2), dicts)

\* group.metadata[key] = 1
GroupSetMetadata ==
    \E side \in Sides, key \in MetadataKeys :
        Mutate(side, GroupOf(side),
               [dicts EXCEPT ![GroupOf(side).metadata][key] = 1])

NextGroup ==
    \/ SubsetCameras
    \/ SubsetCamerasNames
    \/ GroupCopy
    \/ GroupSetRotations
    \/ GroupSetNames
    \/ GroupResizeCameras
    \/ GroupSetMetadata

SpecGroup == InitGroup /\ [][NextGroup]_vars

\* ------------------------------------------------------------------------
\* resample_points
\*
\* imgp is indexed [camera][point]; extra is NoExtra or the record of the
\* board data [objp, ids, rvecs, tvecs], the first two indexed [point] and
\* the last two [camera][point].  np.random.random breaks the ties between
\* points seen by equally many cameras, so a call has a set of outcomes.
\* ------------------------------------------------------------------------

RECURSIVE sorted(_)
\* sorted(include) for a set of indices
sorted(S) ==
    IF S = {} THEN <<>>
    ELSE LET m == CHOOSE x \in S : \A y \in S : x <= y
         IN  <<m>> \o sorted(S \ {m})

subset_extra_whole(extra, ixs) == extra

\* subset_extra(extra, ixs) for a list of indices
subset_extra(extra, ixs) ==
    IF ~extra.given THEN NoExtra
    ELSE [given |-> TRUE,
          objp |-> Take(extra.objp, ixs),
          ids |-> Take(extra.ids, ixs),
          rvecs |-> [c \in 1..Len(extra.rvecs) |-> Take(extra.rvecs[c], ixs)],
          tvecs |-> [c \in 1..Len(extra.tvecs) |-> Take(extra.tvecs[c], ixs)],
          has_rt |-> TRUE,
          ids_map |-> <<>>]

\* imgp[:, ixs]
columns(imgp, ixs) == Array([c \in 1..Len(imgp) |-> Array(Take(imgp[c], ixs))])

\* the points both camera i and camera j see: good[i] & good[j]
seen_by_both(imgp, i, j) ==
    {n \in 1..Len(imgp[i]) : ~IsNaN(imgp[i][n][1]) /\ ~IsNaN(imgp[j][n][1])}

\* num_cams[n]: the number of cameras that see point n
num_cams_of(imgp, n) == Cardinality({c \in 1..Len(imgp) : ~IsNaN(imgp[c][n][1])})

\* the points of the subset seen by more than t cameras
seen_by_more(imgp, subset, t) == {p \in subset : num_cams_of(imgp, p) > t}

\* the sets that take every point seen by more than t cameras and fill up to k
\* points with points seen by exactly t cameras
top_with_ties(imgp, subset, k, t) ==
    {seen_by_more(imgp, subset, t) \cup T :
        T \in {S \in SUBSET (seen_by_more(imgp, subset, t - 1)
                              \ seen_by_more(imgp, subset, t)) :
                  Cardinality(S) = k - Cardinality(seen_by_more(imgp, subset, t))}}

\* a faulty pick: any n_samp points of the subset, whatever the number of
\* cameras that see them
picks_in_any_order(imgp, subset, n_samp) ==
    {S \in SUBSET subset : Cardinality(S) = Min(n_samp, Cardinality(subset))}

\* ixs[subset][np.argsort(-arr)[:n_samp]]: the sets of n_samp points of the
\* subset that can come first when the points are ordered by the number of
\* cameras that see them, ties in random order (arr = num_cams + a random
\* number below 1)
picks(imgp, subset, n_samp) ==
    top_with_ties(imgp, subset, Min(n_samp, Cardinality(subset)),
        CHOOSE t \in 0..Len(imgp) :
            /\ Cardinality(seen_by_more(imgp, subset, t))
                   <= Min(n_samp, Cardinality(subset))
            /\ \A u \in 0..(t - 1) :
                   Cardinality(seen_by_more(imgp, subset, u))
                       > Min(n_samp, Cardinality(subset)))

\* the camera pairs (i, j), i < j, in the order of the two loops
pairs(n_cams) ==
    Concat([i \in 1..n_cams |-> [k \in 1..(n_cams - i) |-> <<i, i + k>>]])

RECURSIVE includes(_, _, _, _)
\* the values `include` can have after the loop over the camera pairs from
\* the k-th pair on, given the values it can have before
includes(imgp, n_samp, k, before) ==
    IF k > Len(pairs(Len(imgp))) THEN before
    ELSE includes(imgp, n_samp, k + 1,
             {include \cup picked :
                 include \in before,
                 picked \in picks(imgp,
                               seen_by_both(imgp, pairs(Len(imgp))[k][1],
                                            pairs(Len(imgp))[k][2]),
                               n_samp)})

\* resample_points(imgp, extra, n_samp): the set of its outcomes [newp, extra]
resample_points(imgp, extra, n_samp) ==
    {[newp |-> columns(imgp, sorted(include)),
      extra |-> subset_extra(extra, sorted(include))] :
        include \in includes(imgp, n_samp, 1, {{}})}

NumResamplePoints == 3

MaxSamp == 2

\* the observation of point n by camera c, different for every c and n
Pixel(c, n) == <<10 * c + n, n>>

\* the CxNx2 arrays of two or three cameras, every point seen by any of them
ResampleArrays ==
    {Array([c \in 1..n_cams |-> Array([n \in 1..NumResamplePoints |->
          IF sees[n][c] THEN Pixel(c, n) ELSE NaN2])]) :
        n_cams \in 2..3, sees \in [1..NumResamplePoints -> [1..3 -> BOOLEAN]]}

\* the board data of an array, different for every entry
ExtraOf(imgp) ==
    [given |-> TRUE,
     objp |-> [n \in 1..Len(imgp[1]) |-> 100 + n],
     ids |-> [n \in 1..Len(imgp[1]) |-> n % 2],
     rvecs |-> [c \in 1..Len(imgp) |-> [n \in 1..Len(imgp[1]) |-> 200 + 10 * c + n]],
     tvecs |-> [c \in 1..Len(imgp) |-> [n \in 1..Len(imgp[1]) |-> 300 + 10 * c + n]],
     has_rt |-> TRUE,
     ids_map |-> <<>>]

InitResample ==
    /\ rs = NoResample
    /\ IdleBundle
    /\ IdleIter
    /\ IdleReturn
    /\ IdleShape
    /\ IdleCalib
    /\ IdleFn
    /\ IdleCam
    /\ IdleTri
    /\ IdleBA
    /\ IdleGroup

\* newp, extra = resample_points(imgp, extra, n_samp)
ResamplePoints ==
    /\ ~rs.called
    /\ \E imgp \in ResampleArrays, with_extra \in BOOLEAN, n_samp \in 0..MaxSamp :
           \E extra \in {IF with_extra THEN ExtraOf(imgp) ELSE NoExtra} :
               \E r \in resample_points(imgp, extra, n_samp) :
                   rs' = [called |-> TRUE, imgp |-> imgp, extra |-> extra,
                          n_samp |-> n_samp, newp |-> r.newp,
                          new_extra |-> r.extra]
    /\ UNCHANGED besidesRes

\* the caller is done with what the call returned
ResampleReturn ==
    /\ rs.called
    /\ rs' = NoResample
    /\ UNCHANGED besidesRes

NextResample ==
    \/ ResamplePoints
    \/ ResampleReturn

SpecResample == InitResample /\ [][NextResample]_vars

\* ------------------------------------------------------------------------
\* The set-up of a bundle adjustment with board data: remap_ids,
\* _initialize_params_bundle, _jac_sparsity_bundle and _error_fun_bundle
\*
\* Indices into the parameter vector and into the residual vector count from
\* 0, as in the source.  make_M, get_rtvec and inv compose the poses of the
\* model's geometry, in which a pose (rvec, tvec) moves a point along x by
\* rvec[0] + tvec[0] and along y and z by tvec[1] and tvec[2].
\* ------------------------------------------------------------------------

\* remap_ids(ids): every id replaced by its rank among the distinct ids
remap_ids(ids) ==
    [n \in 1..Len(ids) |->
        Cardinality({ids[m] : m \in 1..Len(ids)} \cap (0..(ids[n] - 1)))]

\* transform_points for one point
transform_points(point, rvec, tvec) ==
    <<Add(point[1], rvec[1] + tvec[1]), Add(point[2], tvec[2]),
      Add(point[3], tvec[3])>>

\* get_rtvec(np.matmul(inv(M_cam), M_board_cam)): [rvec, tvec]
board_pose(M_cam, rvec, tvec) ==
    [rvec |-> [k \in 1..3 |-> rvec[k] - M_cam.rvec[k]],
     tvec |-> [k \in 1..3 |-> tvec[k] - M_cam.tvec[k]]]

\* int(np.max(ids)) + 1
n_boards_of(ids) == 1 + (CHOOSE b \in {ids[n] : n \in 1..Len(ids)} :
                            \A n \in 1..Len(ids) : ids[n] <= b)

\* np.where(ids == board_num)[0][0]
first_point_of(ids, board_num) ==
    CHOOSE n \in 1..Len(ids) :
        ids[n] = board_num /\ \A m \in 1..(n - 1) : ids[m] # board_num

\* np.where(~np.isnan(p2ds[:, point_id, 0]))[0]
cam_ids_possible(p2ds, point_id) ==
    {c \in 1..Len(p2ds) : ~IsNaN(p2ds[c][point_id][1])}

\* the initial poses of the boards, one [rvec, tvec] per board, for the
\* camera np.random.choice picked for every board
initial_poses(cameras, p2ds, extra, n_boards, cam_id) ==
    [b \in 1..n_boards |->
        IF extra.has_rt
        THEN board_pose(get_extrinsics_mat(cameras[cam_id[b]]),
                        extra.rvecs[cam_id[b]][first_point_of(extra.ids_map, b - 1)],
                        extra.tvecs[cam_id[b]][first_point_of(extra.ids_map, b - 1)])
        ELSE [rvec |-> Zeros(3), tvec |-> Zeros(3)]]

\* the cameras np.random.choice can pick, one for every board; no choice is
\* made when the board data holds no poses
cam_id_choices(p2ds, extra, n_boards) ==
    IF extra.has_rt
    THEN {ch \in [1..n_boards -> 1..Len(p2ds)] :
             \A b \in 1..n_boards :
                 ch[b] \in cam_ids_possible(p2ds,
                               first_point_of(extra.ids_map, b - 1))}
    ELSE {[b \in 1..n_boards |-> 1]}

\* x0 once the camera parameters, the points and the poses are known
x0_of(cam_params, p3ds, poses) ==
    cam_params \o ravel(p3ds)
        \o Concat([b \in 1..Len(poses) |-> poses[b].rvec])
        \o Concat([b \in 1..Len(poses) |-> poses[b].tvec])

\* _initialize_params_bundle(p2ds, extra, only_extrinsics): the set of its
\* outcomes [raised, x0, n_cam_params]; it raises when a get_params raises
\* and when no camera sees the first point of a board
_initialize_params_bundle(cameras, p2ds, n_points, extra, only_extrinsics) ==
    LET r == initialize_params_bundle(cameras, p2ds, n_points, only_extrinsics)
        cam_params == SubSeq(r.x0, 1, Len(r.x0) - 3 * n_points)
        n_boards == IF extra.given THEN n_boards_of(extra.ids_map) ELSE 0
        choices == cam_id_choices(p2ds, extra, n_boards)
    IN  IF ~r.ok \/ choices = {}
        THEN {[raised |-> TRUE, x0 |-> <<>>, n_cam_params |-> 0]}
        ELSE {[raised |-> FALSE,
               x0 |-> x0_of(cam_params, r.p3ds,
                            initial_poses(cameras, p2ds, extra, n_boards, cam_id)),
               n_cam_params |-> r.n_cam_params] : cam_id \in choices}

\* the entries (camera, point, coordinate) of a CxNx2 array that are not
\* not-a-number, in the order of the flattened array: the order of x[good]
good_entries(p2ds) ==
    Concat([c \in 1..Len(p2ds) |-> Concat([n \in 1..Len(p2ds[c]) |->
        Concat([k \in 1..2 |->
            IF IsNaN(p2ds[c][n][k]) THEN <<>> ELSE <<<<c, n, k>>>>])])])

\* the entries _jac_sparsity_bundle sets in the rows of the board residuals
board_rows(n_good_values, n_cams, n_cam_params, n_points, n_boards, ids) ==
    {<<n_good_values + (n - 1) * 3 + i, n_cams * n_cam_params + n_points * 3 + ids[n] * 3 + j>> :
        n \in 1..n_points, i \in 0..2, j \in 0..2}
    \cup {<<n_good_values + (n - 1) * 3 + i, n_cams * n_cam_params + n_points * 3 + n_boards * 3 + ids[n] * 3 + j>> :
        n \in 1..n_points, i \in 0..2, j \in 0..2}
    \cup {<<n_good_values + (n - 1) * 3 + i, n_cams * n_cam_params + (n - 1) * 3 + i>> :
        n \in 1..n_points, i \in 0..2}

reproj_rows_of_next_camera(good, n_cams, n_cam_params) ==
    {<<ix - 1, good[ix][1] * n_cam_params + i>> :
        ix \in 1..Len(good), i \in 0..(n_cam_params - 1)}
    \cup {<<ix - 1, n_cams * n_cam_params + (good[ix][2] - 1) * 3 + i>> :
        ix \in 1..Len(good), i \in 0..2}

\* the entries _jac_sparsity_bundle sets in the rows of the reprojection
\* residuals; good holds (camera, point, coordinate) of every residual
reproj_rows(good, n_cams, n_cam_params) ==
    {<<ix - 1, (good[ix][1] - 1) * n_cam_params + i>> :
        ix \in 1..Len(good), i \in 0..(n_cam_params - 1)}
    \cup {<<ix - 1, n_cams * n_cam_params + (good[ix][2] - 1) * 3 + i>> :
        ix \in 1..Len(good), i \in 0..2}

\* _jac_sparsity_bundle(p2ds, n_cam_params, extra): the shape of A_sparse
\* and the set of its entries <<row, column>> that are 1
_jac_sparsity_bundle(p2ds, n_cam_params, extra) ==
    LET n_cams == Len(p2ds)
        n_points == Len(p2ds[1])
        n_boards == IF extra.given THEN n_boards_of(extra.ids_map) ELSE 0
        n_good_values == Len(good_entries(p2ds))
    IN  [n_errors |-> IF extra.given THEN n_good_values + n_points * 3
                      ELSE n_good_values,
         n_params |-> n_cams * n_cam_params + n_points * 3 + n_boards * 6,
         ones |-> reproj_rows(good_entries(p2ds), n_cams, n_cam_params)
                  \cup (IF extra.given
                        THEN board_rows(n_good_values, n_cams, n_cam_params,
                                        n_points, n_boards, extra.ids_map)
                        ELSE {})]

\* np.min(objp[objp > 0])
min_scale_of(objp) ==
    CHOOSE m \in {objp[n][k] : n \in 1..Len(objp), k \in 1..3} \ {0} :
        \A n \in 1..Len(objp), k \in 1..3 : objp[n][k] > 0 => m <= objp[n][k]

\* rvecs[ids] or tvecs[ids] for one point: the triple of board b (from 0)
\* among the triples that start at offset a of params
triple_of(params, a, b) == Slice(params, a + 3 * b, a + 3 * b + 3)

pose_of_first_board(params, a, n_boards, b) ==
    [rvec |-> triple_of(params, a, 0),
     tvec |-> triple_of(params, a + n_boards * 3, 0)]

\* the pose _error_fun_bundle reads from params for board b (from 0)
pose_of(params, a, n_boards, b) ==
    [rvec |-> triple_of(params, a, b),
     tvec |-> triple_of(params, a + n_boards * 3, b)]

\* 2 * a
Twice(a) == Add(a, a)

\* errors_obj: 2 * (p3ds_test - expected).ravel() / min_scale
errors_obj(params, p3ds, a, extra) ==
    Concat([n \in 1..Len(p3ds) |->
        [k \in 1..3 |->
            Div(Twice(Sub(p3ds[n][k],
                          transform_points(extra.objp[n],
                              pose_of(params, a, n_boards_of(extra.ids_map),
                                      extra.ids_map[n]).rvec,
                              pose_of(params, a, n_boards_of(extra.ids_map),
                                      extra.ids_map[n]).tvec)[k])),
                min_scale_of(extra.objp))]])

\* errors[good]
errors_reproj(errors, good) ==
    [ix \in 1..Len(good) |-> errors[good[ix][1]][good[ix][2]][good[ix][3]]]

\* what _error_fun_bundle returns once the cameras are set
residuals_of(cameras, params, p2ds, p3ds, a, extra) ==
    errors_reproj(reprojection_error(cameras, p3ds, p2ds), good_entries(p2ds))
        \o (IF extra.given THEN errors_obj(params, p3ds, a, extra) ELSE <<>>)

\* the rest of _error_fun_bundle after the loop that sets the cameras
error_fun_rest(set, params, p2ds, n_cam_params, extra) ==
    IF ~set.ok THEN [raised |-> TRUE, cameras |-> set.cameras, residuals |-> <<>>]
    ELSE [raised |-> FALSE, cameras |-> set.cameras,
          residuals |->
              residuals_of(set.cameras, params, p2ds,
                  Array(p3ds_test(params, Len(set.cameras), n_cam_params,
                                  Len(p2ds[1]))),
                  n_cam_params * Len(set.cameras) + Len(p2ds[1]) * 3, extra)]

\* _error_fun_bundle(params, p2ds, n_cam_params, extra, only_extrinsics):
\* [raised, cameras, residuals], cameras being self.cameras afterwards
_error_fun_bundle(cameras, params, p2ds, n_cam_params, extra, only_extrinsics) ==
    error_fun_rest(set_all_params(cameras, params, n_cam_params, only_extrinsics, 1),
                   params, p2ds, n_cam_params, extra)

\* number of points in the p2ds array of a set-up
NumBundlePoints == 2

\* the groups a bundle adjustment is set up for: two cameras of one class,
\* and two fisheye cameras of which one has the extra distortion parameter
BundleGroups ==
    {<<BACamera(k, 1), BACamera(k, 2)>> : k \in CameraKinds}
    \cup {<<BACamera("fisheye", 1), BACamera("fisheye_extra", 2)>>}

\* how the two cameras see a point: both, the first alone, the second
\* without its y coordinate, neither
PointSightings == {"both", "first", "half", "none"}

\* the sightings of the points: all but one point seen by both cameras
BundleSightings ==
    {[n \in 1..NumBundlePoints |-> IF n = one THEN s ELSE "both"] :
        one \in 1..NumBundlePoints, s \in PointSightings}

\* the CxNx2 array in which point n, at (36 n, 0, 0), is seen as sees[n] says
BundlePoints(cameras, sees) ==
    Array([c \in 1..2 |-> Array([n \in 1..NumBundlePoints |->
        IF sees[n] = "none" \/ (sees[n] = "first" /\ c = 2) THEN NaN2
        ELSE IF sees[n] = "half" /\ c = 2
        THEN <<project(cameras[c], <<36 * n, 0, 0>>)[1], NaN>>
        ELSE project(cameras[c], <<36 * n, 0, 0>>)])])

\* the board ids of the points: one board, ids that rise, ids that fall,
\* ids that alternate
BoardIds ==
    {[n \in 1..NumBundlePoints |-> 4],
     [n \in 1..NumBundlePoints |-> 2 * n + 1],
     [n \in 1..NumBundlePoints |-> 20 - 3 * n],
     [n \in 1..NumBundlePoints |-> 5 + 2 * (n % 2)]}

\* board data with the ids `ids`: object points and, when has_rt, the pose
\* of the board of every point as every camera estimated it
BundleExtra(ids, has_rt) ==
    [given |-> TRUE,
     objp |-> [n \in 1..NumBundlePoints |-> <<2 * n, 2, 0>>],
     ids |-> ids,
     rvecs |-> IF has_rt
               THEN [c \in 1..2 |-> [n \in 1..NumBundlePoints |->
                        <<100 * c + 10 * n, 0, 0>>]]
               ELSE <<>>,
     tvecs |-> IF has_rt
               THEN [c \in 1..2 |-> [n \in 1..NumBundlePoints |->
                        <<1000 * c + 100 * n, 5, 6>>]]
               ELSE <<>>,
     has_rt |-> has_rt,
     ids_map |-> <<>>]

BundleExtras ==
    {NoExtra} \cup {BundleExtra(ids, has_rt) : ids \in BoardIds, has_rt \in BOOLEAN}

\* extra["ids_map"] = remap_ids(extra["ids"])
with_ids_map(extra) ==
    IF extra.given THEN [extra EXCEPT !.ids_map = remap_ids(extra.ids)] ELSE extra

\* what the set-up leaves: x0, the sparsity pattern, and what the first call
\* of the residual function by least_squares, at x0, returns
bundle_setup(cameras, p2ds, extra, only_extrinsics, init, fun) ==
    [called |-> TRUE, cameras |-> cameras, p2ds |-> p2ds, extra |-> extra,
     only_extrinsics |-> only_extrinsics, raised |-> init.raised,
     x0 |-> init.x0, n_cam_params |-> init.n_cam_params,
     jac |-> IF init.raised THEN NoBundle.jac
             ELSE _jac_sparsity_bundle(p2ds, init.n_cam_params, extra),
     fun_raised |-> ~init.raised /\ fun.raised,
     residuals |-> IF init.raised \/ fun.raised THEN <<>> ELSE fun.residuals]

\* the first residual evaluation, at x0
first_evaluation(cameras, p2ds, extra, only_extrinsics, init) ==
    IF init.raised THEN [raised |-> TRUE, cameras |-> cameras, residuals |-> <<>>]
    ELSE _error_fun_bundle(cameras, init.x0, p2ds, init.n_cam_params, extra,
                           only_extrinsics)

InitBundle ==
    /\ bs = NoBundle
    /\ IdleResample
    /\ IdleIter
    /\ IdleReturn
    /\ IdleShape
    /\ IdleCalib
    /\ IdleFn
    /\ IdleCam
    /\ IdleTri
    /\ IdleBA
    /\ IdleGroup

\* bundle_adjust(p2ds, extra, only_extrinsics=...) up to the first residual
\* evaluation of least_squares
BundleAdjustSetup ==
    /\ ~bs.called
    /\ \E cameras \in BundleGroups, sees \in BundleSightings,
          extra0 \in BundleExtras, only_extrinsics \in BOOLEAN :
           \E p2ds \in {BundlePoints(cameras, sees)}, extra \in {with_ids_map(extra0)} :
               \E init \in _initialize_params_bundle(cameras, p2ds, NumBundlePoints,
                                                     extra, only_extrinsics) :
                   bs' = bundle_setup(cameras, p2ds, extra, only_extrinsics, init,
                             first_evaluation(cameras, p2ds, extra,
                                              only_extrinsics, init))
    /\ UNCHANGED besidesBun

\* the caller is done with the set-up
BundleReturn ==
    /\ bs.called
    /\ bs' = NoBundle
    /\ UNCHANGED besidesBun

NextBundle ==
    \/ BundleAdjustSetup
    \/ BundleReturn

SpecBundle == InitBundle /\ [][NextBundle]_vars

\* ------------------------------------------------------------------------
\* CameraGroup.bundle_adjust_iter
\*
\* `it` holds the position of the call (pc), its arguments, the locals of
\* the loop, the cameras of the group and, in `solves`, what every call of
\* bundle_adjust was given.  Errors are integers on a grid fine enough for
\* every mean, median and percentile the call takes to be exact.
\* ------------------------------------------------------------------------

\* min_points of get_error_dict
MinPoints == 10

\* err_subset_mean of the pair (i, j): the mean of the two cameras' residual
\* norms at the points where neither residual has a missing x
err_subset_mean(errors_full, i, j) ==
    LET subset == Where(Array([n \in 1..Len(errors_full[i]) |->
                      ~IsNaN(errors_full[i][n][1]) /\ ~IsNaN(errors_full[j][n][1])]), 1)
    IN  Array([k \in 1..Len(subset) |->
            Div(Add(Norm(errors_full[i][subset[k]]),
                    Norm(errors_full[j][subset[k]])), 2)])

\* the entry get_error_dict makes for a pair, if any: the pair needs more
\* than min_points points
pair_entry(pair, err, min_points) ==
    IF Len(err) > min_points
    THEN << [pair |-> pair, num |-> Len(err),
             percents |-> <<np_percentile(err, 15), np_percentile(err, 75)>>] >>
    ELSE <<>>

\* get_error_dict(errors_full, min_points): the items of the dict in the
\* order they were inserted, [pair, num, percents]
get_error_dict(errors_full, min_points) ==
    Concat([k \in 1..Len(pairs(Len(errors_full))) |->
        pair_entry(pairs(Len(errors_full))[k],
                   err_subset_mean(errors_full, pairs(Len(errors_full))[k][1],
                                   pairs(Len(errors_full))[k][2]),
                   min_points)])

RECURSIVE max_error_of(_, _)
\* max_error after the loop over the items from the k-th on
max_error_of(items, max_error) ==
    IF items = <<>> THEN max_error
    ELSE max_error_of(Tail(items), PyMax(Head(items).percents[2], max_error))

RECURSIVE min_error_of(_, _)
\* min_error after the loop over the items
min_error_of(items, min_error) ==
    IF items = <<>> THEN min_error
    ELSE min_error_of(Tail(items), PyMax(Head(items).percents[1], min_error))

\* mu = max(min(max_error, mus[i]), min_error) of a round of the loop
mu_of_round(items, mu_i) ==
    PyMax(PyMin(max_error_of(items, 0), mu_i), min_error_of(items, 0))

\* a faulty mu_final: the percentiles alone
mu_final_of_percentiles(items, end_mu) ==
    PyMax(max_error_of(items, 0), min_error_of(items, 0))

\* mu = max(max(max_error, end_mu), min_error) of the final solve
mu_final(items, end_mu) ==
    PyMax(PyMax(max_error_of(items, 0), end_mu), min_error_of(items, 0))

RECURSIVE Power(_, _)
\* r to the n-th power
Power(r, n) == IF n = 0 THEN 1 ELSE r * Power(r, n - 1)

\* mus = np.exp(np.linspace(np.log(start_mu), np.log(end_mu), num=n_iters)):
\* n_iters values from start_mu down to end_mu in equal ratios
mus_of(start_mu, end_mu, n_iters) ==
    IF n_iters = 0 THEN <<>>
    ELSE IF n_iters = 1 THEN <<start_mu>>
    ELSE LET r == CHOOSE q \in 1..(start_mu \div end_mu) :
                      end_mu * Power(q, n_iters - 1) = start_mu
         IN  [i \in 1..n_iters |-> end_mu * Power(r, n_iters - i)]

\* the step of the error grid
Unit == 36 * 100

\* the vectors the solver may return for a round: x0 itself, or x0 with the
\* first camera moved along x (entry 4 is tvec[0] of the first camera)
IterTrials(x0) == {x0, MoveOne(x0, 4, -2 * Unit)}

\* what bundle_adjust does once the parameters are initialised: the first
\* residual evaluation writes x0 into the cameras, the solver returns a
\* vector, and that vector is written into the cameras.  What scipy makes of
\* a problem without any residual is its own business: it may raise
solve_and_commit(cameras, init, only_extrinsics, no_points) ==
    IF ~init.ok THEN {[raised |-> TRUE, cameras |-> cameras]}
    ELSE IF ~set_all_params(cameras, init.x0, init.n_cam_params,
                            only_extrinsics, 1).ok
    THEN {[raised |-> TRUE,
           cameras |-> set_all_params(cameras, init.x0, init.n_cam_params,
                                      only_extrinsics, 1).cameras]}
    ELSE {[raised |-> FALSE,
           cameras |-> set_all_params(cameras, x, init.n_cam_params,
                                      only_extrinsics, 1).cameras] :
              x \in IterTrials(init.x0)}
         \cup (IF no_points THEN {[raised |-> TRUE, cameras |-> cameras]} ELSE {})

\* self.bundle_adjust(p2ds, None, loss="linear", only_extrinsics=...): the set
\* of its outcomes [raised, cameras], the assert on the shape of p2ds first;
\* the error it returns is left out
bundle_adjust(cameras, p2ds, only_extrinsics) ==
    IF Len(p2ds) # Len(cameras) THEN {[raised |-> TRUE, cameras |-> cameras]}
    ELSE solve_and_commit(cameras,
             initialize_params_bundle(cameras, p2ds, n_points_of(p2ds),
                                      only_extrinsics),
             only_extrinsics, n_points_of(p2ds) = 0)

\* errors_norm < mu: the indices of the points below mu
below(errors_norm, mu) ==
    Where(Array([n \in 1..Len(errors_norm) |-> Less(errors_norm[n], mu)]), 1)

\* errors_full = self.reprojection_error(self.triangulate(p2ds), p2ds)
errors_full_of(cameras, p2ds) ==
    reprojection_error(cameras,
        triangulate(cameras, p2ds, n_points_of(p2ds), TRUE, "nan").out, p2ds)

\* what bundle_adjust was given by one call: the round (n_iters for the final
\* solve), the loss, the threshold and the points
Solve(kind, i, mu, p2ds, raised) ==
    [kind |-> kind, i |-> i, loss |-> "linear", mu |-> mu, p2ds |-> p2ds,
     raised |-> raised]

\* the largest number of rounds asked for
MaxIters == 2

\* the number of points of the caller's tensor
NumIterPoints == 12

\* three pinhole cameras shifted along x
IterCamera(c) ==
    Camera(Eye3, Zeros(5), <<4, 2>>, Zeros(3), <<Unit * (c - 1), 0, 0>>, "cam", FALSE)

\* the groups bundle_adjust_iter is called on: three pinhole cameras, or two
\* and a fisheye camera
IterGroup(mixed) ==
    <<IterCamera(1), IterCamera(2),
      IF mixed
      THEN FisheyeCamera(Eye3, Zeros(4), <<4, 2>>, Zeros(3), <<2 * Unit, 0, 0>>,
                         "cam", FALSE)
      ELSE IterCamera(3)>>

\* which camera sees which point: in "pair" the first two cameras see every
\* point and the third the first two points; in "all" every camera sees
\* every point; "few" is "pair" cut down to min_points points
IterSees(kind, c, n) ==
    IF kind = "all" THEN TRUE
    ELSE IF kind = "pair" THEN c <= 2 \/ n <= 2
    ELSE n <= MinPoints /\ (c <= 2 \/ n <= 2)

\* the caller's tensor: point n lies at (Unit * n, 0, 0), and the second
\* camera's detection of it is off by 2 * Unit * n pixels; a missing
\* observation is not-a-number in both coordinates.  "short" has one row
\* less than the group has cameras
IterPoints(kind) ==
    Array([c \in 1..(IF kind = "short" THEN 2 ELSE 3) |->
        Array([n \in 1..NumIterPoints |->
            IF IterSees(kind, c, n)
            THEN <<Unit * n + Unit * (c - 1) + (IF c = 2 THEN 2 * Unit * n ELSE 0), 0>>
            ELSE NaN2])])

\* the calls made: [kind, mixed, n_iters, mu, n_samp_full, n_samp_iter,
\* error_threshold, only_extrinsics]; the schedules are those whose values
\* lie on the grid, and the small sample sizes go with the tensors that have
\* few ties between points seen by equally many cameras
IterInputs ==
    {c \in [kind : {"pair", "all", "few", "short"}, mixed : BOOLEAN,
            n_iters : 0..MaxIters,
            mu : {<<64 * 400, 400>>, <<40000, 40000>>},
            n_samp_full : {1, 1000}, n_samp_iter : {1, 200},
            error_threshold : {1, 6 * Unit},
            only_extrinsics : BOOLEAN] :
        /\ c.mixed => c.kind = "pair" /\ c.n_samp_full = 1000 /\ c.n_samp_iter = 200
        /\ c.kind = "short" =>
               c.n_iters = 0 /\ c.n_samp_full = 1000 /\ c.n_samp_iter = 200
                   /\ c.error_threshold = 1 /\ c.only_extrinsics
        /\ c.kind = "all" => c.n_samp_full = 1000 /\ c.n_samp_iter = 200
        /\ c.n_samp_full = 1 => c.n_samp_iter = 200}

InitIter ==
    /\ it = NoIter
    /\ IdleResample
    /\ IdleBundle
    /\ IdleReturn
    /\ IdleShape
    /\ IdleCalib
    /\ IdleFn
    /\ IdleCam
    /\ IdleTri
    /\ IdleBA
    /\ IdleGroup

\* the call that has passed its assert: the first resampling, the first
\* error and the schedule
iter_entered(c, cameras, p2ds_full, drawn) ==
    [NoIter EXCEPT
        !.pc = IF c.n_iters > 0 THEN "round" ELSE "final",
        !.cameras = cameras, !.given = p2ds_full, !.p2ds_full = p2ds_full,
        !.n_iters = c.n_iters, !.start_mu = c.mu[1], !.end_mu = c.mu[2],
        !.n_samp_iter = c.n_samp_iter, !.n_samp_full = c.n_samp_full,
        !.error_threshold = c.error_threshold,
        !.only_extrinsics = c.only_extrinsics,
        !.mus = mus_of(c.mu[1], c.mu[2], c.n_iters),
        !.p2ds = drawn.newp, !.extra = drawn.extra,
        !.error = average_error(cameras, drawn.newp, TRUE)]

\* cgroup.bundle_adjust_iter(p2ds, None, n_iters, start_mu, end_mu, ...) up
\* to the loop; the assert on the shape of p2ds comes first
IterStart ==
    /\ it.pc = "idle"
    /\ \E c \in IterInputs :
           \E cameras \in {IterGroup(c.mixed)}, p2ds_full \in {IterPoints(c.kind)} :
               IF Len(p2ds_full) # Len(cameras)
               THEN it' = [NoIter EXCEPT !.pc = "raised", !.cameras = cameras,
                                         !.given = p2ds_full]
               ELSE \E drawn \in resample_points(p2ds_full, NoExtra, c.n_samp_full) :
                        it' = iter_entered(c, cameras, p2ds_full, drawn)
    /\ UNCHANGED besidesIter

\* a faulty round_draw: the round draws from what the last round kept
round_draw_from_kept(s) == resample_points(s.p2ds_samp, s.extra_samp, s.n_samp_full)

\* p2ds, extra = resample_points(p2ds_full, extra_full, n_samp=n_samp_full)
\* at the top of every round and after the loop, s being the call
round_draw(s) == resample_points(s.p2ds_full, s.extra_full, s.n_samp_full)

\* the locals of a round once mu, good and the sample of the round are there
round_done(drawn, errors_norm, mu, good, samp, error_threshold) ==
    [it EXCEPT
        !.p2ds = drawn.newp, !.extra = drawn.extra, !.mu = mu, !.good = good,
        !.p2ds_samp = samp.newp, !.extra_samp = samp.extra,
        !.error = np_median(errors_norm),
        !.pc = IF Less(np_median(errors_norm), error_threshold)
               THEN "final" ELSE "solve"]

\* one round of the loop up to its break: resample from the full input,
\* score, set mu, keep the points below mu, resample them, and leave the
\* loop when the median error is below error_threshold
IterRound ==
    /\ it.pc = "round"
    /\ \E drawn \in round_draw(it) :
       \E errors_full \in {errors_full_of(it.cameras, drawn.newp)} :
       \E errors_norm \in {mean_errors(errors_full, n_points_of(drawn.newp))},
          items \in {get_error_dict(errors_full, MinPoints)} :
       \E mu \in {mu_of_round(items, it.mus[it.i + 1])} :
       \E good \in {below(errors_norm, mu)} :
       \E samp \in resample_points(columns(drawn.newp, good),
                                   subset_extra(drawn.extra, good),
                                   it.n_samp_iter) :
           it' = round_done(drawn, errors_norm, mu, good, samp, it.error_threshold)
    /\ UNCHANGED besidesIter

\* the solve of a round: self.bundle_adjust(p2ds_samp, extra_samp,
\* loss="linear", ...), and on to the next round or out of the loop
IterSolve ==
    /\ it.pc = "solve"
    /\ \E r \in bundle_adjust(it.cameras, it.p2ds_samp, it.only_extrinsics) :
           it' = [it EXCEPT
                     !.cameras = r.cameras,
                     !.solves = Append(@, Solve("loop", it.i, it.mu,
                                                it.p2ds_samp, r.raised)),
                     !.i = it.i + 1,
                     !.pc = IF r.raised THEN "raised"
                            ELSE IF it.i + 1 < it.n_iters THEN "round"
                            ELSE "final"]
    /\ UNCHANGED besidesIter

\* the locals after the final solve
final_done(drawn, mu, good, r) ==
    [it EXCEPT
        !.p2ds = drawn.newp, !.extra = drawn.extra, !.mu = mu, !.good = good,
        !.cameras = r.cameras,
        !.solves = Append(@, Solve("final", it.n_iters, mu,
                                   columns(drawn.newp, good), r.raised)),
        !.error = IF r.raised THEN it.error
                  ELSE average_error(r.cameras, drawn.newp, TRUE),
        !.pc = IF r.raised THEN "raised" ELSE "done"]

\* after the loop: resample from the full input, set mu, solve on the points
\* below mu, and score the cameras the solve has left
IterFinal ==
    /\ it.pc = "final"
    /\ \E drawn \in round_draw(it) :
       \E errors_full \in {errors_full_of(it.cameras, drawn.newp)} :
       \E errors_norm \in {mean_errors(errors_full, n_points_of(drawn.newp))},
          items \in {get_error_dict(errors_full, MinPoints)} :
       \E mu \in {mu_final(items, it.end_mu)} :
       \E good \in {below(errors_norm, mu)} :
       \E r \in bundle_adjust(it.cameras, columns(drawn.newp, good),
                              it.only_extrinsics) :
           it' = final_done(drawn, mu, good, r)
    /\ UNCHANGED besidesIter

\* the caller is done with the error the call returned, or with its exception
IterReturn ==
    /\ it.pc \in {"done", "raised"}
    /\ it' = NoIter
    /\ UNCHANGED besidesIter

NextIter ==
    \/ IterStart
    \/ IterRound
    \/ IterSolve
    \/ IterFinal
    \/ IterReturn

SpecIter == InitIter /\ [][NextIter]_vars

\* ------------------------------------------------------------------------
\* Calls with an observation tensor whose number of rows may differ from the
\* number of cameras
\*
\* `sh` holds the last such call: the operation, the number of rows of the
\* tensor, the cameras of the group before (entry) and after (cameras), and
\* whether the call raised.  A tensor of frames and joints (CxNxJx2) is held
\* as the CxMx2 array of its M = N*J points.
\* ------------------------------------------------------------------------

\* the number of points of a tensor
NumShapePoints == 1

\* a pinhole camera with the 8 distortion terms of cv2's rational model
Pinhole8(i) == [BACamera("pinhole", i) EXCEPT !.dist = Ramp(40 * i, 8)]

\* the groups the calls are made on: two cameras of one kind
ShapeGroups ==
    {<<BACamera("pinhole", 1), BACamera("pinhole", 2)>>,
     <<BACamera("fisheye", 1), BACamera("fisheye", 2)>>,
     <<Pinhole8(1), Pinhole8(2)>>}

\* a tensor of `rows` rows: world point n at (36 n, 0, 0) as the cameras see
\* it, a row beyond the last camera being a copy of the last camera's
ShapePoints(cameras, rows) ==
    Array([c \in 1..rows |-> Array([n \in 1..NumShapePoints |->
        project(cameras[Min(c, Len(cameras))], <<36 * n, 0, 0>>)])])

\* the 3D points the caller passes with the tensor
ShapeP3ds == [n \in 1..NumShapePoints |-> <<36 * n, 0, 0>>]

\* the record of a call that has ended
shape_call(name, cameras, rows, raised, after) ==
    [pc |-> "returned", op |-> name, rows |-> rows, entry |-> cameras,
     cameras |-> after, raised |-> raised]

\* optim_points(points, p3ds) and optim_points_possible(points, p3ds): the
\* assert on the shape of points, then an optimisation of the 3D points that
\* reads the cameras and writes none: [raised, cameras]
optim_points(cameras, points) ==
    [raised |-> Len(points) # Len(cameras), cameras |-> cameras]

\* triangulate_optim(points, init_ransac): the assert, the triangulation that
\* initialises the 3D points, and optim_points: [raised, cameras]
triangulate_optim(cameras, points, init_ransac) ==
    IF Len(points) # Len(cameras) THEN [raised |-> TRUE, cameras |-> cameras]
    ELSE IF init_ransac
    THEN [raised |-> triangulate_ransac(cameras, points, TRUE, 2, "nan").raised
                        \/ optim_points(cameras, points).raised,
          cameras |-> cameras]
    ELSE [raised |-> triangulate(cameras, points, n_points_of(points), TRUE,
                                 "nan").raised
                        \/ optim_points(cameras, points).raised,
          cameras |-> cameras]

\* _pack_params(camera_network, points_3d, optimize_intrinsics):
\* [ok, x0, n_cam_params].  get_params is called with the keyword
\* optimize_intrinsics, which FisheyeCamera.get_params does not have
_pack_params(cameras, points_3d, optimize_intrinsics) ==
    IF \E i \in 1..Len(cameras) :
           \/ cameras[i].kind # "pinhole"
           \/ ~Camera_get_params(cameras[i], optimize_intrinsics).ok
    THEN [ok |-> FALSE, x0 |-> <<>>, n_cam_params |-> 0]
    ELSE [ok |-> TRUE,
          x0 |-> Concat([i \in 1..Len(cameras) |->
                     Camera_get_params(cameras[i], optimize_intrinsics).v])
                 \o ravel(points_3d),
          n_cam_params |-> Len(Camera_get_params(cameras[1],
                                                 optimize_intrinsics).v)]

RECURSIVE update_cameras(_, _, _, _, _)
\* the loop of fun and of _unpack_params from camera i on:
\* cam.set_params(x[start:end], optimize_intrinsics=...): [ok, cameras]
update_cameras(cameras, x, n_cam_params, optimize_intrinsics, i) ==
    IF i > Len(cameras) THEN [ok |-> TRUE, cameras |-> cameras]
    ELSE LET r == Camera_set_params(cameras[i],
                      Slice(x, (i - 1) * n_cam_params, i * n_cam_params),
                      optimize_intrinsics)
         IN  IF r.ok
             THEN update_cameras([cameras EXCEPT ![i] = r.cam], x, n_cam_params,
                                 optimize_intrinsics, i + 1)
             ELSE [ok |-> FALSE, cameras |-> [cameras EXCEPT ![i] = r.cam]]

\* the vectors the solver may return: x0, or x0 with the first camera moved
WeightedTrials(x0) == {x0, MoveOne(x0, 4, 2)}

\* fun(x0, ...), the first call least_squares makes: the cameras are set from
\* their blocks of x0 before any residual is computed
first_fun(cameras, x0, n_cam_params, optimize_intrinsics) ==
    update_cameras(cameras, x0, n_cam_params, optimize_intrinsics, 1)

\* least_squares and _unpack_params with the cameras as fun(x0) left them.
\* fun indexes mask_valid by camera and raises IndexError for a tensor with
\* fewer rows than cameras; make_jac_sparsity counts the columns from the
\* rows of the tensor, and least_squares rejects the pattern when its shape
\* is not that of the problem
solve_weighted(first, rows, n_points, pack, optimize_intrinsics) ==
    IF ~first.ok THEN {[raised |-> TRUE, cameras |-> first.cameras]}
    ELSE IF rows < Len(first.cameras) /\ n_points > 0
    THEN {[raised |-> TRUE, cameras |-> first.cameras]}
    ELSE IF rows # Len(first.cameras)
    THEN {[raised |-> TRUE, cameras |-> first.cameras]}
    ELSE {[raised |-> ~update_cameras(first.cameras, x, pack.n_cam_params,
                                      optimize_intrinsics, 1).ok,
           cameras |-> update_cameras(first.cameras, x, pack.n_cam_params,
                                      optimize_intrinsics, 1).cameras] :
              x \in WeightedTrials(pack.x0)}

\* what bundle_adjust_with_weighted and bundle_adjust_with_smoothness do
\* with the packed parameters
weighted_packed(cameras, points_2d, pack, optimize_intrinsics) ==
    IF ~pack.ok THEN {[raised |-> TRUE, cameras |-> cameras]}
    ELSE solve_weighted(first_fun(cameras, pack.x0, pack.n_cam_params,
                                  optimize_intrinsics),
                        Len(points_2d), n_points_of(points_2d), pack,
                        optimize_intrinsics)

\* bundle_adjust_with_weighted(camera_network, points_2d, init_points_3d,
\* optimize_intrinsics=...): the set of its outcomes [raised, cameras].
\* Nothing compares the rows of points_2d with the cameras
bundle_adjust_with_weighted(cameras, points_2d, init_points_3d, optimize_intrinsics) ==
    IF Len(init_points_3d) # n_points_of(points_2d)
    THEN {[raised |-> TRUE, cameras |-> cameras]}
    ELSE weighted_packed(cameras, points_2d,
             _pack_params(cameras, init_points_3d, optimize_intrinsics),
             optimize_intrinsics)

\* bundle_adjust_with_smoothness(camera_network, points_2d, init_points_3d,
\* optimize_intrinsics=...): the same steps with fun_with_smoothness and
\* make_jac_sparsity_with_smoothness, whose columns are counted alike
bundle_adjust_with_smoothness(cameras, points_2d, init_points_3d, optimize_intrinsics) ==
    IF Len(init_points_3d) # n_points_of(points_2d)
    THEN {[raised |-> TRUE, cameras |-> cameras]}
    ELSE weighted_packed(cameras, points_2d,
             _pack_params(cameras, init_points_3d, optimize_intrinsics),
             optimize_intrinsics)

\* the number of rows a tensor may have for a group of two cameras
ShapeRows == 1..3

InitShape ==
    /\ sh = NoShape
    /\ IdleCalib
    /\ IdleFn
    /\ IdleIter
    /\ IdleResample
    /\ IdleBundle
    /\ IdleReturn
    /\ IdleCam
    /\ IdleTri
    /\ IdleBA
    /\ IdleGroup

\* a call that reads the cameras: the record of its end
ShapeRead(name, raised(_, _)) ==
    /\ sh.pc = "idle"
    /\ it.pc = "idle"
    /\ \E cameras \in ShapeGroups, rows \in ShapeRows :
           sh' = shape_call(name, cameras, rows, raised(cameras, rows), cameras)
    /\ UNCHANGED besidesShape

\* a call that may write the cameras: each of its outcomes
ShapeWrite(name, outcomes(_, _, _)) ==
    /\ sh.pc = "idle"
    /\ it.pc = "idle"
    /\ \E cameras \in ShapeGroups, rows \in ShapeRows, flag \in BOOLEAN :
           \E r \in outcomes(cameras, rows, flag) :
               sh' = shape_call(name, cameras, rows, r.raised, r.cameras)
    /\ UNCHANGED besidesShape

\* cgroup.triangulate(points)
ShapeTriangulate ==
    ShapeRead("triangulate", LAMBDA cameras, rows :
        triangulate(cameras, ShapePoints(cameras, rows), NumShapePoints,
                    TRUE, "nan").raised)

\* cgroup.triangulate_weighted(points)
ShapeTriangulateWeighted ==
    ShapeRead("triangulate_weighted", LAMBDA cameras, rows :
        CameraGroup_triangulate_weighted(cameras, ShapePoints(cameras, rows),
            NumShapePoints, TRUE, NoWeights, "nan").raised)

\* cgroup.triangulate_possible(points) with one candidate per camera and point
ShapeTriangulatePossible ==
    ShapeRead("triangulate_possible", LAMBDA cameras, rows :
        triangulate_possible(cameras,
            Array([c \in 1..rows |-> Array([n \in 1..NumShapePoints |->
                <<ShapePoints(cameras, rows)[c][n]>>])]),
            TRUE, 2, <<1, 2>>, "nan").raised)

\* cgroup.triangulate_ransac(points)
ShapeTriangulateRansac ==
    ShapeRead("triangulate_ransac", LAMBDA cameras, rows :
        triangulate_ransac(cameras, ShapePoints(cameras, rows), TRUE, 2,
                           "nan").raised)

\* cgroup.optim_points(points, p3ds)
ShapeOptimPoints ==
    ShapeRead("optim_points", LAMBDA cameras, rows :
        optim_points(cameras, ShapePoints(cameras, rows)).raised)

\* cgroup.optim_points_possible(points, p3ds)
ShapeOptimPointsPossible ==
    ShapeRead("optim_points_possible", LAMBDA cameras, rows :
        optim_points(cameras, ShapePoints(cameras, rows)).raised)

\* cgroup.triangulate_optim(points, init_ransac=...)
ShapeTriangulateOptim ==
    ShapeWrite("triangulate_optim", LAMBDA cameras, rows, init_ransac :
        {triangulate_optim(cameras, ShapePoints(cameras, rows), init_ransac)})

\* cgroup.bundle_adjust(p2ds, only_extrinsics=...)
ShapeBundleAdjust ==
    ShapeWrite("bundle_adjust", LAMBDA cameras, rows, only_extrinsics :
        bundle_adjust(cameras, ShapePoints(cameras, rows), only_extrinsics))

\* bundle_adjust_with_weighted(cgroup, points_2d, init_points_3d, ...)
ShapeBundleAdjustWithWeighted ==
    ShapeWrite("bundle_adjust_with_weighted",
        LAMBDA cameras, rows, optimize_intrinsics :
            bundle_adjust_with_weighted(cameras, ShapePoints(cameras, rows),
                                        ShapeP3ds, optimize_intrinsics))

\* bundle_adjust_with_smoothness(cgroup, points_2d, init_points_3d, ...)
ShapeBundleAdjustWithSmoothness ==
    ShapeWrite("bundle_adjust_with_smoothness",
        LAMBDA cameras, rows, optimize_intrinsics :
            bundle_adjust_with_smoothness(cameras, ShapePoints(cameras, rows),
                                          ShapeP3ds, optimize_intrinsics))

\* cgroup.bundle_adjust_iter(p2ds, ...), whose steps are those of the
\* section above
ShapeBundleAdjustIter ==
    /\ sh.pc = "idle"
    /\ IterStart

\* the caller is done with the call
ShapeReturn ==
    /\ sh.pc = "returned"
    /\ sh' = NoShape
    /\ UNCHANGED besidesShape

NextShape ==
    \/ ShapeTriangulate
    \/ ShapeTriangulateWeighted
    \/ ShapeTriangulatePossible
    \/ ShapeTriangulateRansac
    \/ ShapeOptimPoints
    \/ ShapeOptimPointsPossible
    \/ ShapeTriangulateOptim
    \/ ShapeBundleAdjust
    \/ ShapeBundleAdjustWithWeighted
    \/ ShapeBundleAdjustWithSmoothness
    \/ ShapeBundleAdjustIter
    \/ IterRound
    \/ IterSolve
    \/ IterFinal
    \/ IterReturn
    \/ ShapeReturn

SpecShape == InitShape /\ [][NextShape]_vars

\* ------------------------------------------------------------------------
\* CameraGroup.calibrate_rows
\* ------------------------------------------------------------------------

NumCalibCameras == 3

\* the frame size of the cameras that have one
CalibSize == <<41, 31>>

\* camera i of the group calibrate_rows is called on; `missing` is the
\* position of the camera constructed with size=None, 0 when there is none
CalibCamera(kind, i, missing) ==
    [BACamera(kind, i) EXCEPT !.size = IF i = missing THEN <<>> ELSE CalibSize]

\* the detections of camera i: boards is the number of detections with at
\* least 9 corners, focal the focal length they determine
CalibRows(i, sparse) ==
    [boards |-> IF i = sparse THEN 0 ELSE 2, focal |-> 50 + i]

\* the calls made: [kind, missing, sparse, short, init_intrinsics,
\* init_extrinsics]; short is an all_rows with one entry less than the group
\* has cameras
CalibInputs ==
    [kind : {"pinhole", "fisheye"}, missing : 0..NumCalibCameras,
     sparse : 0..NumCalibCameras, short : BOOLEAN,
     init_intrinsics : BOOLEAN, init_extrinsics : BOOLEAN]

\* camera.get_size()
get_size(c) == c.size

\* cv2.initCameraMatrix2D(objp, imgp, size): the principal point at the
\* centre of the frame, the focal length from the detections
initCameraMatrix2D(rows, size) ==
    <<<<rows.focal, 0, (size[1] - 1) \div 2>>,
      <<0, rows.focal, (size[2] - 1) \div 2>>,
      <<0, 0, 1>>>>

\* one pass of "for rows, camera in zip(all_rows, self.cameras)" for camera
\* k: the assert on its size, then with init_intrinsics the matrix from
\* its detections and the distortion set to zero; zip(*mixed) raises
\* ValueError when no detection has 9 corners
calibrate_camera(cameras, all_rows, k, init_intrinsics) ==
    IF get_size(cameras[k]) = <<>>
    THEN [raised_by |-> "size", cameras |-> cameras]
    ELSE IF ~init_intrinsics THEN [raised_by |-> "", cameras |-> cameras]
    ELSE IF all_rows[k].boards = 0
    THEN [raised_by |-> "detections", cameras |-> cameras]
    ELSE [raised_by |-> "",
          cameras |-> [cameras EXCEPT ![k] = zero_distortions(
              set_camera_matrix(cameras[k],
                  initCameraMatrix2D(all_rows[k], get_size(cameras[k]))))]]

\* rvecs, tvecs = get_initial_extrinsics(rtvecs, names): the poses the
\* boards give, camera i at 36 (i - 1) along the first axis
initial_rvecs(n) == [i \in 1..n |-> Zeros(3)]

initial_tvecs(n) == [i \in 1..n |-> <<36 * (i - 1), 0, 0>>]

\* "if init_extrinsics: ... self.set_rotations(rvecs);
\* self.set_translations(tvecs)"
with_initial_extrinsics(cameras, init_extrinsics) ==
    IF ~init_extrinsics THEN cameras
    ELSE set_translations(
             set_rotations([cameras |-> cameras], initial_rvecs(Len(cameras))),
             initial_tvecs(Len(cameras))).cameras

\* error = self.bundle_adjust_iter(imgp, extra, ...) as calibrate_rows sees
\* it: the outcomes [raised, cameras] of a solve over the parameters of the
\* cameras (its rounds are those of the section on bundle_adjust_iter)
calibrate_solve(cameras) ==
    LET got == Array([i \in 1..Len(cameras) |-> get_params(cameras[i], FALSE)])
        x0 == Concat(Array([i \in 1..Len(cameras) |-> got[i].v]))
    IN  solve_and_commit(cameras,
            [ok |-> \A i \in 1..Len(cameras) : got[i].ok, x0 |-> x0,
             n_cam_params |-> Len(x0) \div Len(cameras), p3ds |-> <<>>],
            FALSE, FALSE)

InitCalib ==
    /\ cal = NoCalib
    /\ IdleFn
    /\ IdleShape
    /\ IdleIter
    /\ IdleResample
    /\ IdleBundle
    /\ IdleReturn
    /\ IdleCam
    /\ IdleTri
    /\ IdleBA
    /\ IdleGroup

\* calibrate_rows(all_rows, board, init_intrinsics, init_extrinsics) is
\* called: "assert len(all_rows) == len(self.cameras)"
CalibStart ==
    /\ cal.pc = "idle"
    /\ \E c \in CalibInputs :
       \E cameras \in {[i \in 1..NumCalibCameras |->
                           CalibCamera(c.kind, i, c.missing)]},
          all_rows \in {[i \in 1..(NumCalibCameras - (IF c.short THEN 1 ELSE 0)) |->
                           CalibRows(i, c.sparse)]} :
           cal' = [pc |-> IF Len(all_rows) = Len(cameras) THEN "loop" ELSE "raised",
                   entry |-> cameras, cameras |-> cameras, all_rows |-> all_rows,
                   init_intrinsics |-> c.init_intrinsics,
                   init_extrinsics |-> c.init_extrinsics, k |-> 1,
                   raised_by |-> IF Len(all_rows) = Len(cameras) THEN "" ELSE "rows"]
    /\ UNCHANGED besidesCalib

\* the loop over the cameras, one camera at a time
CalibLoop ==
    /\ cal.pc = "loop"
    /\ cal.k <= Len(cal.cameras)
    /\ \E r \in {calibrate_camera(cal.cameras, cal.all_rows, cal.k,
                                  cal.init_intrinsics)} :
           cal' = [cal EXCEPT !.cameras = r.cameras,
                              !.raised_by = r.raised_by,
                              !.pc = IF r.raised_by = "" THEN "loop" ELSE "raised",
                              !.k = IF r.raised_by = "" THEN @ + 1 ELSE @]
    /\ UNCHANGED besidesCalib

\* after the loop: the board poses, the initial extrinsics and
\* bundle_adjust_iter
CalibAdjust ==
    /\ cal.pc = "loop"
    /\ cal.k > Len(cal.cameras)
    /\ \E r \in calibrate_solve(with_initial_extrinsics(cal.cameras,
                                                        cal.init_extrinsics)) :
           cal' = [cal EXCEPT !.cameras = r.cameras,
                              !.raised_by = IF r.raised THEN "adjust" ELSE "",
                              !.pc = IF r.raised THEN "raised" ELSE "done"]
    /\ UNCHANGED besidesCalib

\* the caller is done with the error the call returned, or with its exception
CalibReturn ==
    /\ cal.pc \in {"done", "raised"}
    /\ cal' = NoCalib
    /\ UNCHANGED besidesCalib

NextCalib ==
    \/ CalibStart
    \/ CalibLoop
    \/ CalibAdjust
    \/ CalibReturn

SpecCalib == InitCalib /\ [][NextCalib]_vars

\* ------------------------------------------------------------------------
\* The functions modelled from here on are called one at a time; fcall holds
\* the call under way
\* ------------------------------------------------------------------------

InitFn ==
    /\ fcall = NoFcall
    /\ IdleCalib
    /\ IdleShape
    /\ IdleIter
    /\ IdleResample
    /\ IdleBundle
    /\ IdleReturn
    /\ IdleCam
    /\ IdleTri
    /\ IdleBA
    /\ IdleGroup

\* the caller is done with what the call returned, or with its exception
FnReturn ==
    /\ fcall.pc \in {"returned", "raised"}
    /\ fcall' = NoFcall
    /\ UNCHANGED besidesFn

\* ------------------------------------------------------------------------
\* CameraGroup.dump and CameraGroup.load
\* ------------------------------------------------------------------------

MaxDumpCameras == 11

RECURSIVE Digits(_)
\* "{}".format(i): the decimal digits of i
Digits(i) == IF i < 10 THEN <<i>> ELSE Digits(i \div 10) \o <<i % 10>>

\* "cam_{}".format(i)
cam_key(i) == [word |-> "cam_", digits |-> Digits(i)]

metadata_key == [word |-> "metadata", digits |-> <<>>]

RECURSIVE digits_less(_, _)
\* the order of str on two runs of digits: the first differing character
\* decides, a proper prefix comes first
digits_less(a, b) ==
    IF b = <<>> THEN FALSE
    ELSE IF a = <<>> THEN TRUE
    ELSE IF Head(a) # Head(b) THEN Head(a) < Head(b)
    ELSE digits_less(Tail(a), Tail(b))

\* the order of str on two keys ("cam_..." comes before "metadata")
key_less(a, b) ==
    IF a.word # b.word THEN a.word = "cam_" ELSE digits_less(a.digits, b.digits)

\* Camera.get_dict and FisheyeCamera.get_dict: list(self.get_size()) raises
\* TypeError for a camera without size; the key "fisheye" is present only
\* in the dict of a fisheye camera
get_dict(c) ==
    [ok |-> get_size(c) # <<>>,
     name |-> c.name, size |-> get_size(c), matrix |-> c.matrix,
     distortions |-> c.dist, rotation |-> c.rvec, translation |-> c.tvec,
     fisheye |-> c.kind = "fisheye"]

\* get_dicts
get_dicts(cameras) == [i \in 1..Len(cameras) |-> get_dict(cameras[i])]

\* load_dict(d) on a camera
load_dict(c, d) ==
    set_size(set_name(set_distortions(set_translation(set_rotation(
        set_camera_matrix(c, d.matrix), d.rotation), d.translation),
        d.distortions), d.name), d.size)

\* Camera.from_dict / FisheyeCamera.from_dict: a camera of the class with its
\* default arguments, then load_dict
from_dict(d) ==
    load_dict(IF d.fisheye
              THEN FisheyeCamera(Eye3, Zeros(4), <<>>, Zeros(3), Zeros(3), "None", FALSE)
              ELSE Camera(Eye3, Zeros(5), <<>>, Zeros(3), Zeros(3), "None", FALSE),
              d)

\* CameraGroup.from_dicts(arr).cameras
from_dicts(arr) == [i \in 1..Len(arr) |-> from_dict(arr[i])]

\* dump(fname): [raised, file], the file a table from key to value
dump(cameras, metadata) ==
    LET ds == get_dicts(cameras)
    IN  IF \E i \in 1..Len(ds) : ~ds[i].ok
        THEN [raised |-> TRUE, file |-> {}]
        ELSE [raised |-> FALSE,
              file |-> {[key |-> cam_key(i - 1), value |-> ds[i]] :
                            i \in 1..Len(ds)}
                       \cup {[key |-> metadata_key, value |-> metadata]}]

RECURSIVE listed(_)
\* the elements of a finite set in some order
listed(S) ==
    IF S = {} THEN <<>>
    ELSE LET x == CHOOSE x \in S : TRUE IN <<x>> \o listed(S \ {x})

\* keys = sorted(master_dict.keys())
sorted_keys(file) == SortSeq(listed({e.key : e \in file}), key_less)

\* master_dict[k]
value_of(file, k) == (CHOOSE e \in file : e.key = k).value

\* load(fname): [cameras, metadata]
load(file) ==
    LET keys == SelectSeq(sorted_keys(file), LAMBDA k : k # metadata_key)
    IN  [cameras |-> from_dicts([i \in 1..Len(keys) |-> value_of(file, keys[i])]),
         metadata |-> IF \E e \in file : e.key = metadata_key
                      THEN value_of(file, metadata_key) ELSE <<>>]

\* the cameras of the groups dumped: n cameras of one class or of both in
\* turn, camera i named after i; `missing` is the position of a camera
\* without size, 0 when there is none
DumpCamera(kind, i, missing) ==
    set_name(CalibCamera(IF kind = "mixed"
                         THEN (IF i % 2 = 0 THEN "fisheye" ELSE "pinhole")
                         ELSE kind, i, missing), ToString(i))

DumpInputs ==
    [n : 1..MaxDumpCameras, kind : {"pinhole", "fisheye", "mixed"},
     missing : 0..1, metadata : {<<>>, <<"adjusted">>}]

\* cgroup.dump(fname)
Dump ==
    /\ fcall.pc = "idle"
    /\ \E c \in DumpInputs :
       \E cameras \in {[i \in 1..c.n |-> DumpCamera(c.kind, i, c.missing)]} :
       \E r \in {dump(cameras, c.metadata)} :
           fcall' = [pc |-> IF r.raised THEN "raised" ELSE "dumped",
                     name |-> "dump",
                     args |-> [cameras |-> cameras, metadata |-> c.metadata],
                     out |-> [file |-> r.file, cameras |-> <<>>, metadata |-> <<>>]]
    /\ UNCHANGED besidesFn

\* CameraGroup.load(fname) of the file just written
Load ==
    /\ fcall.pc = "dumped"
    /\ \E g \in {load(fcall.out.file)} :
           fcall' = [fcall EXCEPT !.pc = "returned", !.name = "load",
                                  !.out.cameras = g.cameras,
                                  !.out.metadata = g.metadata]
    /\ UNCHANGED besidesFn

NextDump ==
    \/ Dump
    \/ Load
    \/ FnReturn

SpecDump == InitFn /\ [][NextDump]_vars

\* ------------------------------------------------------------------------
\* make_jac_sparsity_with_smoothness and fun_with_smoothness
\* ------------------------------------------------------------------------

MaxFrames == 3

MaxKeypoints == 2

\* the (frame, keypoint) positions of T frames of K keypoints, counted from 0
\* as range(T) and range(K) do
positions(T, K) == (0..(T - 1)) \X (0..(K - 1))

\* np.sum(mask_valid): mask_valid[c][t][k] says whether camera c saw keypoint
\* k in frame t
valid_count(mask_valid, C, T, K) ==
    Cardinality({m \in (1..C) \X positions(T, K) :
                    mask_valid[m[1]][m[2][1] + 1][m[2][2] + 1]})

\* make_jac_sparsity(points_2d, mask_valid, n_cam_params): the shape of the
\* pattern; every row of it has the entries of its camera block and of its
\* point
make_jac_sparsity(C, T, K, mask_valid, n_cam_params) ==
    [n_rows |-> valid_count(mask_valid, C, T, K) * 2,
     n_params |-> C * n_cam_params + T * K * 3]

\* smoothness_derivative.lower()
lower(s) ==
    IF s \in {"first", "First", "FIRST"} THEN "first"
    ELSE IF s \in {"second", "Second", "SECOND"} THEN "second"
    ELSE s

\* "smoothness_weight is not None and smoothness_weight > 1e-12"; the weight
\* is <<>> for None and <<w>> for w times 1e-12
smoothing(smoothness_weight) ==
    smoothness_weight # <<>> /\ smoothness_weight[1] > 1

\* n_smooth_rows as make_jac_sparsity_with_smoothness counts them
n_smooth_rows_of(smoothness_derivative, T, K) ==
    IF lower(smoothness_derivative) = "first" THEN (T - 1) * K * 3
    ELSE IF lower(smoothness_derivative) = "second" THEN (T - 2) * K * 3
    ELSE 0

\* make_jac_sparsity_with_smoothness(points_2d, mask_valid, n_cam_params,
\* smoothness_weight, smoothness_derivative, T, K): [raised, n_rows,
\* n_params].  dok_matrix raises ValueError for a negative number of rows,
\* and copying the reprojection pattern raises IndexError when it has a
\* row the new matrix has not
make_jac_sparsity_with_smoothness(C, mask_valid, n_cam_params, smoothness_weight, smoothness_derivative, T, K) ==
    LET A_reproj == make_jac_sparsity(C, T, K, mask_valid, n_cam_params)
        n_rows == A_reproj.n_rows
                      + n_smooth_rows_of(smoothness_derivative, T, K)
    IN  IF ~smoothing(smoothness_weight)
        THEN [raised |-> FALSE, n_rows |-> A_reproj.n_rows,
              n_params |-> A_reproj.n_params]
        ELSE IF n_rows < 0 \/ (A_reproj.n_rows > n_rows /\ n_cam_params + 3 > 0)
        THEN [raised |-> TRUE, n_rows |-> 0, n_params |-> 0]
        ELSE [raised |-> FALSE, n_rows |-> n_rows, n_params |-> A_reproj.n_params]

\* len(fun_with_smoothness(x, ...)) for an x without not-a-number: two
\* residuals for every valid observation, and three for every pair of
\* consecutive frames ("first") or triple of them ("second") of a keypoint
n_residuals_with_smoothness(C, T, K, mask_valid, smoothness_weight, smoothness_derivative) ==
    valid_count(mask_valid, C, T, K) * 2
    + (IF ~smoothing(smoothness_weight) THEN 0
       ELSE IF lower(smoothness_derivative) = "first"
       THEN 3 * Cardinality((0..(T - 2)) \X (0..(K - 1)))
       ELSE IF lower(smoothness_derivative) = "second"
       THEN 3 * Cardinality((0..(T - 3)) \X (0..(K - 1)))
       ELSE 0)

\* the validity masks of the calls: every observation valid, or none, or
\* those of the first camera, or those of the first frame
SmoothMask(which, C, T, K) ==
    [c \in 1..C |-> [t \in 1..T |-> [k \in 1..K |->
        CASE which = "all" -> TRUE
          [] which = "none" -> FALSE
          [] which = "camera" -> c = 1
          [] OTHER -> t = 1]]]

\* the calls: two pinhole cameras, T frames of K keypoints
SmoothInputs ==
    [T : 1..MaxFrames, K : 1..MaxKeypoints,
     mask : {"all", "none", "camera", "frame"},
     smoothness_weight : {<<>>, <<0>>, <<1>>, <<2>>},
     smoothness_derivative : {"first", "second", "Second", "third"},
     optimize_intrinsics : BOOLEAN]

\* the set-up of bundle_adjust_with_smoothness: _pack_params,
\* make_jac_sparsity_with_smoothness, and the residuals at x0
SmoothnessSetup ==
    /\ fcall.pc = "idle"
    /\ \E c \in SmoothInputs :
       \E cameras \in {<<BACamera("pinhole", 1), BACamera("pinhole", 2)>>} :
       \E pack \in {_pack_params(cameras, [n \in 1..(c.T * c.K) |-> <<36 * n, 0, 0>>],
                                 c.optimize_intrinsics)},
          mask_valid \in {SmoothMask(c.mask, Len(cameras), c.T, c.K)} :
       \E A \in {make_jac_sparsity_with_smoothness(Len(cameras), mask_valid,
                     pack.n_cam_params, c.smoothness_weight,
                     c.smoothness_derivative, c.T, c.K)} :
           fcall' = [pc |-> IF A.raised THEN "raised" ELSE "returned",
                     name |-> "make_jac_sparsity_with_smoothness",
                     args |-> c,
                     out |-> [n_rows |-> A.n_rows, n_params |-> A.n_params,
                              n_x0 |-> Len(pack.x0),
                              n_residuals |-> n_residuals_with_smoothness(
                                  Len(cameras), c.T, c.K, mask_valid,
                                  c.smoothness_weight, c.smoothness_derivative)]]
    /\ UNCHANGED besidesFn

NextSmooth ==
    \/ SmoothnessSetup
    \/ FnReturn

SpecSmooth == InitFn /\ [][NextSmooth]_vars

\* ------------------------------------------------------------------------
\* interpolate_data
\* ------------------------------------------------------------------------

MaxSeries == 4

\* ix(mask) of nan_helper: the positions where the mask holds, ascending and
\* counted from 0
nonzero(mask) ==
    LET hits == {i \in 1..Len(mask) : mask[i]}
    IN  SortSeq(listed({i - 1 : i \in hits}), LAMBDA a, b : a < b)

\* a faulty interpolation: the value of the valid entry to the left
np_interp_left(x, xp, fp) ==
    IF x <= xp[1] THEN fp[1]
    ELSE fp[CHOOSE j \in 1..Len(xp) :
                xp[j] <= x /\ (j = Len(xp) \/ x < xp[j + 1])]

\* np.interp(x, xp, fp) at one x for ascending xp, not empty: the end value
\* outside the range of xp, the straight line between the two neighbours
\* inside
np_interp(x, xp, fp) ==
    IF x <= xp[1] THEN fp[1]
    ELSE IF x >= xp[Len(xp)] THEN fp[Len(xp)]
    ELSE LET j == CHOOSE j \in 1..(Len(xp) - 1) : xp[j] <= x /\ x < xp[j + 1]
         IN  fp[j] + ((fp[j + 1] - fp[j]) * (x - xp[j])) \div (xp[j + 1] - xp[j])

\* interpolate_data(vals): out[nans] = np.interp(ix(nans), ix(~nans),
\* vals[~nans]); np.interp raises ValueError for an empty xp, and then
\* out[:] = 0
interpolate_data(vals) ==
    LET nans == [i \in 1..Len(vals) |-> IsNaN(vals[i])]
        xp == nonzero([i \in 1..Len(vals) |-> ~nans[i]])
        fp == [j \in 1..Len(xp) |-> vals[xp[j] + 1]]
    IN  IF xp = <<>> THEN [i \in 1..Len(vals) |-> 0]
        ELSE [i \in 1..Len(vals) |->
                 IF nans[i] THEN np_interp(i - 1, xp, fp) ELSE vals[i]]

\* the series of the calls: up to MaxSeries entries, each missing or a
\* multiple of 12
SeriesInputs ==
    UNION {[1..n -> {NaN, 0, 12, 36}] : n \in 1..MaxSeries}

\* out = interpolate_data(vals)
InterpolateData ==
    /\ fcall.pc = "idle"
    /\ \E vals \in SeriesInputs :
           fcall' = [pc |-> "returned", name |-> "interpolate_data",
                     args |-> [vals |-> vals],
                     out |-> [out |-> interpolate_data(vals)]]
    /\ UNCHANGED besidesFn

NextInterp ==
    \/ InterpolateData
    \/ FnReturn

SpecInterp == InitFn /\ [][NextInterp]_vars

\* ------------------------------------------------------------------------
\* CameraGroup.optim_points with fixed frames
\* ------------------------------------------------------------------------

MaxOptimFrames == 3

\* np.apply_along_axis(interpolate_data, 0, p3ds): every coordinate of every
\* joint interpolated over the frames
interpolate_frames(p3ds) ==
    LET series(j, k) == interpolate_data([t \in 1..Len(p3ds) |-> p3ds[t][j][k]])
    IN  [t \in 1..Len(p3ds) |-> [j \in 1..Len(p3ds[t]) |->
            [k \in 1..3 |-> series(j, k)[t]]]]

\* p3ds.ravel() of an array of frames of joints
ravel_frames(p3ds) == Concat([t \in 1..Len(p3ds) |-> Concat(p3ds[t])])

\* params[:n_3d].reshape((n_frames, n_joints, 3))
reshape_frames(params, n_frames, n_joints) ==
    [t \in 1..n_frames |-> [j \in 1..n_joints |->
        Slice(params, ((t - 1) * n_joints + j - 1) * 3,
                      ((t - 1) * n_joints + j) * 3)]]

\* a faulty replacement: the points of the parameter vector as they are
with_fixed_ignored(p3ds, p3ds_fixed) == p3ds

\* np.vstack([p3ds_fixed, p3ds[n_fixed:]]) with n_fixed the number of
\* fixed frames
with_fixed(p3ds, p3ds_fixed) == p3ds_fixed \o Slice(p3ds, Len(p3ds_fixed), Len(p3ds))

\* np.diff(p3ds, n=1, axis=0).ravel(): the smoothness residuals before
\* scaling
errors_smooth_of(p3ds) ==
    ravel_frames([t \in 1..(Len(p3ds) - 1) |-> [j \in 1..Len(p3ds[t]) |->
        [k \in 1..3 |-> p3ds[t + 1][j][k] - p3ds[t][j][k]]]])

\* _error_fun_triangulation(params, ..., p3ds_fixed): the 3D points the
\* residuals are computed from, and the smoothness residuals; fixed says
\* whether p3ds_fixed is not None
error_fun_triangulation(params, n_frames, n_joints, fixed, p3ds_fixed) ==
    LET p3ds == IF fixed
                THEN with_fixed(reshape_frames(params, n_frames, n_joints),
                                p3ds_fixed)
                ELSE reshape_frames(params, n_frames, n_joints)
    IN  [params |-> params, p3ds |-> p3ds, errors_smooth |-> errors_smooth_of(p3ds)]

\* the vectors the solver may evaluate and return: x0, x0 moved in every
\* entry, x0 moved in its first or in its last entry
OptimTrials(x0) ==
    {x0, MoveAll(x0, 12), MoveOne(x0, 1, 12), MoveOne(x0, Len(x0), 12)}

\* the initial 3D points of the calls: one joint over up to MaxOptimFrames
\* frames, in each frame missing or on the first axis
OptimInputs ==
    UNION {[1..n -> {<<NaN3>>, <<<<0, 0, 0>>>>, <<<<12, 0, 0>>>>, <<<<36, 0, 0>>>>}] :
              n \in 1..MaxOptimFrames}

\* optim_points(points, p3ds, n_fixed=...) up to the call of least_squares
OptimStart ==
    /\ fcall.pc = "idle"
    /\ \E p3ds \in OptimInputs, n_fixed \in 0..(MaxOptimFrames + 1) :
       \E p3ds_intp \in {interpolate_frames(p3ds)} :
           fcall' = [pc |-> "solving", name |-> "optim_points",
                     args |-> [p3ds |-> p3ds, n_fixed |-> n_fixed],
                     out |-> [p3ds_intp |-> p3ds_intp,
                              x0 |-> ravel_frames(p3ds_intp),
                              p3ds_fixed |-> IF n_fixed > 0
                                             THEN Slice(p3ds_intp, 0, n_fixed)
                                             ELSE <<>>,
                              evals |-> <<>>, x |-> <<>>, p3ds_new2 |-> <<>>]]
    /\ UNCHANGED besidesFn

\* least_squares evaluates self._error_fun_triangulation at a vector; evals
\* holds the evaluation made last
OptimEval ==
    /\ fcall.pc = "solving"
    /\ \E x \in OptimTrials(fcall.out.x0) :
           fcall' = [fcall EXCEPT !.out.evals =
               <<error_fun_triangulation(x, Len(fcall.args.p3ds), 1,
                   fcall.args.n_fixed > 0, fcall.out.p3ds_fixed)>>]
    /\ UNCHANGED besidesFn

\* least_squares returns opt2, and optim_points returns p3ds_new2
OptimFinish ==
    /\ fcall.pc = "solving"
    /\ fcall.out.evals # <<>>
    /\ \E x \in OptimTrials(fcall.out.x0) :
       \E p3ds_new2 \in {reshape_frames(x, Len(fcall.args.p3ds), 1)} :
           fcall' = [fcall EXCEPT
               !.pc = "returned",
               !.out.x = x,
               !.out.p3ds_new2 = IF fcall.args.n_fixed > 0
                                 THEN with_fixed(p3ds_new2, fcall.out.p3ds_fixed)
                                 ELSE p3ds_new2]
    /\ UNCHANGED besidesFn

NextOptim ==
    \/ OptimStart
    \/ OptimEval
    \/ OptimFinish
    \/ FnReturn

SpecOptim == InitFn /\ [][NextOptim]_vars

\* ------------------------------------------------------------------------
\* fix_init_points_and_weights
\* ------------------------------------------------------------------------

MaxFixFrames == 2

\* The arrays of a call live in a heap: a function from references to
\* arrays, <<>> where nothing is allocated.  Reference 1 is init_points_3d
\* and reference 2 is weights, as the caller holds them; 0 is None

\* a faulty copy: the array itself
np_copy_same(heap, ref, new) == [heap |-> heap, ref |-> ref]

\* np.copy(a): a new array with the entries of a
np_copy(heap, ref, new) == [heap |-> [heap EXCEPT ![new] = heap[ref]], ref |-> new]

\* np.isnan(a[..., 0]) | np.isnan(a[..., 1]) | np.isnan(a[..., 2])
nan_mask_of(a) ==
    [t \in 1..Len(a) |-> [k \in 1..Len(a[t]) |->
        IsNaN(a[t][k][1]) \/ IsNaN(a[t][k][2]) \/ IsNaN(a[t][k][3])]]

\* a[np.isnan(a)] = 0.0
zero_nans(a) ==
    [t \in 1..Len(a) |-> [k \in 1..Len(a[t]) |-> [x \in 1..3 |->
        IF IsNaN(a[t][k][x]) THEN 0 ELSE a[t][k][x]]]]

\* "if nan_mask[t, k]: weights_fixed[:, t, k] = 0.0" for every t and k
zero_weights(w, nan_mask) ==
    [c \in 1..Len(w) |-> [t \in 1..Len(w[c]) |-> [k \in 1..Len(w[c][t]) |->
        IF nan_mask[t][k] THEN 0 ELSE w[c][t][k]]]]

\* fix_init_points_and_weights(init_points_3d, weights) on the heap: the
\* heap after the call and the references it returns, [heap, points,
\* weights]
fix_init_points_and_weights(heap, init_points_3d, weights) ==
    LET p == np_copy(heap, init_points_3d, 3)
        w == IF weights = 0 THEN [heap |-> p.heap, ref |-> 0]
             ELSE np_copy(p.heap, weights, 4)
        nan_mask == nan_mask_of(w.heap[p.ref])
        h1 == [w.heap EXCEPT ![p.ref] = zero_nans(@)]
        h2 == IF w.ref = 0 THEN h1
              ELSE [h1 EXCEPT ![w.ref] = zero_weights(@, nan_mask)]
    IN  [heap |-> h2, points |-> p.ref, weights |-> w.ref]

\* the initial points of the calls: every point valid, missing in its second
\* coordinate, or missing in all three
FixPoints ==
    UNION {[1..T -> [1..K -> {<<1, 2, 3>>, <<1, NaN, 3>>, NaN3}]] :
              T \in 1..MaxFixFrames, K \in 1..MaxKeypoints}

\* the weights of two cameras for T frames of K keypoints: one weight
\* everywhere, or a weight per entry with a not-a-number among them
FixWeights(which, T, K) ==
    [c \in 1..2 |-> [t \in 1..T |-> [k \in 1..K |->
        IF which = "same" THEN 5
        ELSE IF c = 1 /\ t = 1 /\ k = 1 THEN NaN
        ELSE 100 * c + 10 * t + k]]]

\* init_points_3d_fixed, weights_fixed = fix_init_points_and_weights(
\* init_points_3d, weights)
FixInitPointsAndWeights ==
    /\ fcall.pc = "idle"
    /\ \E points \in FixPoints, which \in {"None", "same", "each"} :
       \E heap \in {<<points,
                      IF which = "None" THEN <<>>
                      ELSE FixWeights(which, Len(points), Len(points[1])),
                      <<>>, <<>>>>} :
       \E r \in {fix_init_points_and_weights(heap, 1,
                     IF which = "None" THEN 0 ELSE 2)} :
           fcall' = [pc |-> "returned", name |-> "fix_init_points_and_weights",
                     args |-> [heap |-> heap, init_points_3d |-> 1,
                               weights |-> IF which = "None" THEN 0 ELSE 2],
                     out |-> r]
    /\ UNCHANGED besidesFn

NextFix ==
    \/ FixInitPointsAndWeights
    \/ FnReturn

SpecFix == InitFn /\ [][NextFix]_vars

\* ------------------------------------------------------------------------
\* The set-up of optim_points_possible
\* ------------------------------------------------------------------------

MaxPossible == 2

\* good[c][t][j][p]: camera c has candidate p of joint j in frame t
\* (~np.isnan(p2ds[:, :, :, :, 0])); the entries of such an array
entries_of(good) ==
    {e \in (1..Len(good)) \X (1..Len(good[1])) \X (1..Len(good[1][1])) : TRUE}

\* np.sum(good_full): the candidates that are present
n_good(good) ==
    Cardinality({ep \in entries_of(good) \X (1..Len(good[1][1][1])) :
                    good[ep[1][1]][ep[1][2]][ep[1][3]][ep[2]]})

\* np.sum(np.any(good_full, axis=3)): the entries with a candidate
n_any_good(good) ==
    Cardinality({e \in entries_of(good) :
                    \E p \in 1..Len(good[1][1][1]) : good[e[1]][e[2]][e[3]][p]})

\* the entries whose first candidate is present: p2ds_full[:, :, :, 0]
n_first_good(good) ==
    Cardinality({e \in entries_of(good) : good[e[1]][e[2]][e[3]][1]})

\* _jac_sparsity_triangulation(p2ds, constraints, constraints_weak,
\* n_deriv_smooth): the shape of the pattern, for p2ds with n_reproj
\* coordinates present
jac_sparsity_triangulation(n_reproj, n_frames, n_joints, n_constraints, n_constraints_weak, n_deriv_smooth) ==
    [n_errors |-> n_reproj + (n_frames - n_deriv_smooth) * n_joints * 3
                      + n_constraints * n_frames + n_constraints_weak * n_frames,
     n_params |-> n_frames * n_joints * 3 + n_constraints + n_constraints_weak]

\* _jac_sparsity_triangulation_possible(p2ds_full, ...): the shape of
\* B_sparse
jac_sparsity_triangulation_possible(good, n_constraints, n_constraints_weak, n_deriv_smooth) ==
    LET A == jac_sparsity_triangulation(2 * n_first_good(good), Len(good[1]),
                 Len(good[1][1]), n_constraints, n_constraints_weak,
                 n_deriv_smooth)
    IN  [n_errors |-> A.n_errors + n_any_good(good),
         n_params |-> A.n_params + n_good(good)]

\* len(_error_fun_triangulation(params, p2ds, ...)) for n_deriv_smooth = 1:
\* the coordinates present in p2ds, np.diff over the frames, and a length
\* residual per constraint and frame
n_errors_triangulation(n_reproj, n_frames, n_joints, n_constraints, n_constraints_weak) ==
    n_reproj + 3 * Cardinality((1..(n_frames - 1)) \X (1..n_joints))
        + n_constraints * n_frames + n_constraints_weak * n_frames

\* len(_error_fun_triangulation_possible(params, p2ds, ...)): p2ds_adj is
\* not-a-number where every candidate is missing, and there is one
\* residual of the weights for every entry with a candidate
n_errors_triangulation_possible(good, n_constraints, n_constraints_weak) ==
    n_errors_triangulation(2 * n_any_good(good), Len(good[1]), Len(good[1][1]),
                           n_constraints, n_constraints_weak)
        + n_any_good(good)

\* len(_initialize_params_triangulation_possible(p3ds, p2ds, ...)):
\* the 3D coordinates, the lengths, and alphas[good]
n_params_triangulation_possible(good, n_constraints, n_constraints_weak) ==
    Len(good[1]) * Len(good[1][1]) * 3 + n_constraints + n_constraints_weak
        + n_good(good)

\* the patterns of missing candidates for two cameras: every candidate
\* present ("both"), the first only, none ("empty"), all but the first
\* ("later_all"), and "both" but for the first entry of the first camera,
\* which has no first candidate ("later") or no candidate ("none")
PossibleGood(which, n_frames, n_joints) ==
    [c \in 1..2 |-> [t \in 1..n_frames |-> [j \in 1..n_joints |->
        [p \in 1..MaxPossible |->
            CASE which = "both" -> TRUE
              [] which = "first" -> p = 1
              [] which = "empty" -> FALSE
              [] which = "later_all" -> p > 1
              [] which = "later" -> ~(c = 1 /\ t = 1 /\ j = 1 /\ p = 1)
              [] OTHER -> ~(c = 1 /\ t = 1 /\ j = 1)]]]]

PossibleInputs ==
    [which : {"both", "first", "empty", "later_all", "later", "none"},
     n_frames : 1..MaxFrames, n_joints : 1..MaxKeypoints,
     n_constraints : 0..1, n_constraints_weak : 0..1]

\* the set-up of optim_points_possible: x0, the sparsity pattern, and the
\* residuals at x0
PossibleSetup ==
    /\ fcall.pc = "idle"
    /\ \E c \in PossibleInputs :
       \E good \in {PossibleGood(c.which, c.n_frames, c.n_joints)} :
       \E jac \in {jac_sparsity_triangulation_possible(good, c.n_constraints,
                       c.n_constraints_weak, 1)} :
           fcall' = [pc |-> "returned", name |-> "optim_points_possible",
                     args |-> [good |-> good, which |-> c.which,
                               n_constraints |-> c.n_constraints,
                               n_constraints_weak |-> c.n_constraints_weak],
                     out |-> [n_errors |-> jac.n_errors, n_params |-> jac.n_params,
                              n_x0 |-> n_params_triangulation_possible(good,
                                  c.n_constraints, c.n_constraints_weak),
                              n_residuals |-> n_errors_triangulation_possible(good,
                                  c.n_constraints, c.n_constraints_weak)]]
    /\ UNCHANGED besidesFn

NextPossible ==
    \/ PossibleSetup
    \/ FnReturn

SpecPossible == InitFn /\ [][NextPossible]_vars

\* ------------------------------------------------------------------------
\* Claims about the parameter vector of one camera
\* ------------------------------------------------------------------------

\* the four fields the parameter vector is made from
CamState(c) == <<c.rvec, c.tvec, c.matrix, c.dist>>

\* C3: set_params(get_params(cam, intrinsics included), intrinsics included)
\* succeeds and leaves rotation, translation, intrinsic matrix and distortion
\* vector of every reachable camera, pinhole or fisheye, as they were.
C3_RoundTripIsIdentity ==
    (op.name = "round_trip" /\ op.intr) =>
        (op.ok /\ CamState(cam) = CamState(prev))

\* the vector the documented packing order asks for
DocumentedVector(c, intr) ==
    c.rvec \o c.tvec \o
    (IF intr
     THEN <<c.matrix[1][1], c.matrix[2][2], c.matrix[1][3], c.matrix[2][3],
            c.matrix[1][2]>> \o Slice(c.dist, 0, 5)
     ELSE <<>>)

\* C4: get_params returns rotation[3], translation[3] and then, only when the
\* intrinsics are requested, fx, fy, cx, cy, skew, k1, k2, p1, p2, k3: 6
\* entries without the intrinsics and 16 with them, for every camera.
C4_DocumentedOrderAndLength ==
    (op.name = "get_params" /\ op.ok) =>
        /\ ret = DocumentedVector(cam, op.intr)
        /\ Len(ret) = (IF op.intr THEN 16 ELSE 6)

\* ------------------------------------------------------------------------
\* Claims about triangulation and scoring
\* ------------------------------------------------------------------------

\* an observation neither of whose coordinates is missing
Valid(pt) == ~IsNaN(pt[1]) /\ ~IsNaN(pt[2])

RECURSIVE Ascending(_)
\* the members of a set of numbers in ascending order
Ascending(S) ==
    IF S = {} THEN <<>>
    ELSE LET m == CHOOSE x \in S : \A y \in S : x <= y
         IN  <<m>> \o Ascending(S \ {m})

RECURSIVE SumOver(_, _)
\* the sum of f over the set S
SumOver(f, S) ==
    IF S = {} THEN 0
    ELSE LET x == CHOOSE x \in S : TRUE
         IN  f[x] + SumOver(f, S \ {x})

\* the cameras that hold a valid first observation of point ip
ValidCams(ip) == {c \in 1..Len(gcams) : Valid(obs[c][ip][1])}

\* point ip triangulated from exactly its valid observations, missing when
\* there are fewer than two of them
TriangulatedFromValid(ip, undistort) ==
    LET V == Ascending(ValidCams(ip))
    IN  IF Len(V) < 2 THEN NaN3
        ELSE triangulate_simple(
                 [i \in 1..Len(V) |->
                     IF undistort
                     THEN undistort_points(gcams[V[i]], obs[V[i]][ip][1])
                     ELSE obs[V[i]][ip][1]],
                 [i \in 1..Len(V) |-> get_extrinsics_mat(gcams[V[i]])],
                 "nan").p3d

\* C6: triangulate returns, for every point, missing when fewer than 2
\* cameras hold a valid observation of it (neither coordinate missing) and
\* otherwise the point triangulated from exactly the valid observations and
\* their cameras.
C6_TriangulatesValidObservations ==
    (tcall.name = "triangulate") =>
        /\ ~tcall.raised
        /\ \A ip \in 1..NumPoints :
               tcall.out[ip] = TriangulatedFromValid(ip, tcall.undistort)

\* the residual norm of point ip of the scored points in camera c
ResidualNorm(c, ip) ==
    Norm(Camera_reprojection_error(gcams[c], tcall.p3ds[ip], obs[c][ip][1]))

\* the average of the residual norms of point ip over the cameras with a
\* valid observation of it, not-a-number when there are fewer than two
AverageOverValid(ip) ==
    LET V == ValidCams(ip)
        norm == [c \in V |-> ResidualNorm(c, ip)]
    IN  IF Cardinality(V) < 2 \/ (\E c \in V : IsNaN(norm[c])) THEN NaN
        ELSE Div(SumOver(norm, V), Cardinality(V))

\* C7: reprojection_error with mean=True returns, for every point, the
\* average of the Euclidean residual norms over exactly the cameras with a
\* valid observation of the point, and not-a-number for a point observed by
\* fewer than 2 cameras.
C7_MeanOverValidCameras ==
    (tcall.name = "reprojection_error_mean") =>
        \A ip \in 1..NumPoints : tcall.out[ip] = AverageOverValid(ip)

\* a scoring call in which a point seen by exactly two of the cameras got a
\* score above zero
C7_Witness ==
    /\ tcall.name = "reprojection_error_mean"
    /\ \E ip \in 1..NumPoints :
           /\ Cardinality(ValidCams(ip)) = 2
           /\ \E c \in 1..Len(gcams) : ~IsNaN(obs[c][ip][1][1]) /\ c \notin ValidCams(ip)
           /\ ~IsNaN(tcall.out[ip])
           /\ tcall.out[ip] > 0

\* the CxNxPx2 array the last call searched
CallPoints ==
    IF tcall.name = "triangulate_ransac"
    THEN [c \in 1..Len(obs) |-> [ip \in 1..NumPoints |-> <<obs[c][ip][1]>>]]
    ELSE obs

\* the cameras that offer a candidate for point ip
PointCams(ip) ==
    {c \in 1..Len(gcams) :
        \E k \in 1..Len(CallPoints[c][ip]) : ~IsNaN(CallPoints[c][ip][k][1])}

\* the combinations of point ip: for each camera that offers a candidate, one
\* of its candidates or 0 for none
Combinations(ip) ==
    {f \in [PointCams(ip) -> 0..Len(CallPoints[1][ip])] :
        \A c \in PointCams(ip) :
            f[c] # 0 => ~IsNaN(CallPoints[c][ip][f[c]][1])}

\* the place of a pick in its camera's list: candidates ascending, none last
Rank(f, c) == IF f[c] = 0 THEN Len(CallPoints[1][1]) + 1 ELSE f[c]

\* f comes before g in the enumeration: cameras ascending, the last camera
\* varying fastest
Before(f, g) ==
    \E c \in DOMAIN f :
        /\ Rank(f, c) < Rank(g, c)
        /\ \A d \in DOMAIN f : d < c => f[d] = g[d]

\* a combination with its 3D point and its mean reprojection error
Scored(f, cnums, pts, cc, p3d) ==
    [f |-> f, n |-> Len(cnums), point |-> p3d,
     err |-> reprojection_error_mean(cc, <<p3d>>,
                 [i \in 1..Len(pts) |-> <<pts[i]>>])[1]]

ScoredFrom(f, cnums, pts, cc) ==
    Scored(f, cnums, pts, cc,
           triangulate_one(cc, pts, tcall.undistort, "nan").out)

ScoredCombination(ip, f) ==
    LET cnums == Ascending({c \in DOMAIN f : f[c] # 0})
    IN  ScoredFrom(f, cnums,
                   [i \in 1..Len(cnums) |-> CallPoints[cnums[i]][ip][f[cnums[i]]]],
                   [i \in 1..Len(cnums) |-> gcams[cnums[i]]])

\* enough picks, or a pick from every camera that offers a candidate
Admissible(r) == r.n >= tcall.min_cams \/ r.n = Cardinality(DOMAIN r.f)

\* a combination at which the enumeration stops
Stops(r) ==
    Admissible(r) /\ Less(r.err, 200) /\ LessFrac(r.err, tcall.threshold)

\* the admissible combinations the enumeration gets to
Considered(table) ==
    {r \in table :
        Admissible(r) /\ \A q \in table : Before(q.f, r.f) => ~Stops(q)}

\* the first of the considered combinations with the lowest error under 200
Kept(considered) ==
    {r \in considered :
        /\ Less(r.err, 200)
        /\ \A q \in considered :
               /\ ~Less(q.err, r.err)
               /\ Before(q.f, r.f) => q.err # r.err}

\* the cameras the call reports as selected for point ip
Selected(ip) ==
    {c \in 1..Len(gcams) :
        \E k \in 1..Len(tcall.picked_vals[c][ip]) : tcall.picked_vals[c][ip][k]}

\* what the call returned for point ip is combination r
Reports(ip, r) ==
    /\ tcall.out[ip] = r.point
    /\ tcall.errors[ip] = r.err
    /\ \A c \in 1..Len(gcams) : \A k \in 1..Len(tcall.picked_vals[c][ip]) :
           tcall.picked_vals[c][ip][k] <=> (c \in DOMAIN r.f /\ r.f[c] = k)

\* what the call returned for point ip is nothing
ReportsNothing(ip) == tcall.out[ip] = NaN3 /\ Selected(ip) = {}

KeptIsReported(ip, kept) ==
    IF kept = {} THEN ReportsNothing(ip)
    ELSE \A r \in kept : Reports(ip, r)

\* C8: for each point of a call that returns, triangulate_possible reports
\* the admissible combination with the lowest mean reprojection error under
\* 200 px among those enumerated up to the first one below threshold, the
\* first in enumeration order (cameras ascending, candidates ascending, none
\* last, last camera varying fastest) among equals, and nothing when there is
\* none.
C8_LowestErrorFirstInOrder ==
    (tcall.name = "triangulate_possible" /\ ~tcall.raised) =>
        \A ip \in 1..NumPoints :
            KeptIsReported(ip,
                Kept(Considered({ScoredCombination(ip, f) : f \in Combinations(ip)})))

\* point ip has two considered combinations with the same lowest error
TieAt(ip, considered) ==
    \E r \in Kept(considered) : \E q \in considered : q.f # r.f /\ q.err = r.err

\* point ip has a combination with a lower error than the kept one, after
\* the one the enumeration stopped at
StoppedEarlyAt(ip, table) ==
    \E r \in Kept(Considered(table)) : \E q \in table :
        Admissible(q) /\ Less(q.err, r.err)

\* a call that returned with a tie between the two best combinations of one
\* point and, at another point, a stop at a combination below threshold
\* before one with a lower error was reached
C8_Witness ==
    /\ tcall.name = "triangulate_possible"
    /\ ~tcall.raised
    /\ \E ip \in 1..NumPoints :
           /\ Selected(ip) # {}
           /\ TieAt(ip, Considered({ScoredCombination(ip, f) :
                                      f \in Combinations(ip)}))
    /\ \E ip \in 1..NumPoints :
           StoppedEarlyAt(ip, {ScoredCombination(ip, f) : f \in Combinations(ip)})

\* C9 as stated: a point with no combination of at least min_cams picks is
\* left missing with no candidate selected, and no point is reconstructed from
\* fewer than min_cams cameras.
C9_NeverFewerThanMinCams ==
    (tcall.name \in {"triangulate_possible", "triangulate_ransac"}
     /\ ~tcall.raised) =>
        \A ip \in 1..NumPoints :
            /\ tcall.out[ip] # NaN3 =>
                   Cardinality(Selected(ip)) >= tcall.min_cams
            /\ Cardinality(PointCams(ip)) < tcall.min_cams =>
                   ReportsNothing(ip)

\* C9: a point is reconstructed only from a combination that has at least
\* min_cams picks or a pick from every camera that offers a candidate for it,
\* and never from fewer than 2 cameras; a point left missing has no candidate
\* selected.
C9_AdmissibleOrMissing ==
    (tcall.name \in {"triangulate_possible", "triangulate_ransac"}
     /\ ~tcall.raised) =>
        \A ip \in 1..NumPoints :
            /\ tcall.out[ip] # NaN3 =>
                   /\ \/ Cardinality(Selected(ip)) >= tcall.min_cams
                      \/ Selected(ip) = PointCams(ip)
                   /\ Cardinality(Selected(ip)) >= 2
            /\ tcall.out[ip] = NaN3 => Selected(ip) = {}

\* a call with min_cams = 3 that reconstructed a point from the only two
\* cameras that offer a candidate for it
C9_Witness ==
    /\ tcall.name \in {"triangulate_possible", "triangulate_ransac"}
    /\ ~tcall.raised
    /\ tcall.min_cams = 3
    /\ \E ip \in 1..NumPoints :
           /\ tcall.out[ip] # NaN3
           /\ Cardinality(Selected(ip)) = 2
           /\ Selected(ip) = PointCams(ip)

\* point ip triangulated by CameraGroup.triangulate from the cameras sel and
\* their observations
LinearOf(ip, sel) ==
    triangulate([i \in 1..Len(sel) |-> gcams[sel[i]]],
                [i \in 1..Len(sel) |-> <<obs[sel[i]][ip][1]>>],
                1, tcall.undistort, tcall.onNaN).out[1]

\* C10: with one candidate per camera and min_cams = 2 (triangulate_ransac),
\* the 3D point returned for a point is CameraGroup.triangulate of exactly
\* the cameras reported as selected for it, and the selected-2D array holds
\* exactly those cameras' observations.
C10_RansacIsLinearOfSelected ==
    (tcall.name = "triangulate_ransac" /\ tcall.min_cams = 2
     /\ ~tcall.raised) =>
        \A ip \in 1..NumPoints :
            /\ tcall.out[ip] = LinearOf(ip, Ascending(Selected(ip)))
            /\ \A c \in 1..Len(gcams) :
                   tcall.points_2d[c][ip] =
                       IF c \in Selected(ip) THEN obs[c][ip][1] ELSE NaN2

\* a ransac call that selected two of the three cameras that see a point
C10_Witness ==
    /\ tcall.name = "triangulate_ransac"
    /\ tcall.min_cams = 2
    /\ ~tcall.raised
    /\ \E ip \in 1..NumPoints :
           /\ Cardinality(Selected(ip)) = 2
           /\ Cardinality(PointCams(ip)) = 3
           /\ tcall.out[ip] # NaN3

\* weights=None, or an array every entry of which is 1
UnitWeights(weights) ==
    \/ weights.ndim = 0
    \/ weights.ndim = 1 /\ \A c \in 1..Len(weights.w) : weights.w[c] = 1
    \/ weights.ndim = 2 /\ \A c \in 1..Len(weights.w) :
           \A n \in 1..Len(weights.w[c]) : weights.w[c][n] = 1

\* the cameras whose first observation of point ip has an x coordinate
SeenBy(ip) == {c \in 1..Len(gcams) : ~IsNaN(obs[c][ip][1][1])}

\* C11: triangulate_weighted with weights=None or with every weight equal to
\* 1 returns, for every point, what triangulate returns for the same
\* observations: the same 3D point, missing for a point with fewer than 2
\* observations, and it fails exactly when triangulate fails.
C11_UnitWeightsAreUnweighted ==
    (tcall.name = "triangulate_weighted" /\ UnitWeights(tcall.weights)) =>
        \E r \in {triangulate(gcams, FirstCandidates(obs), NumPoints,
                              tcall.undistort, tcall.onNaN)} :
            /\ tcall.raised = r.raised
            /\ ~r.raised =>
                   /\ tcall.out = r.out
                   /\ \A ip \in 1..NumPoints :
                          Cardinality(SeenBy(ip)) < 2 => tcall.out[ip] = NaN3

\* a call with an array of unit weights that reconstructed one point from
\* exactly two observations and left a point with one observation missing
C11_Witness ==
    /\ tcall.name = "triangulate_weighted"
    /\ tcall.weights.ndim = 1
    /\ UnitWeights(tcall.weights)
    /\ ~tcall.raised
    /\ \E ip \in 1..NumPoints :
           Cardinality(SeenBy(ip)) = 2 /\ tcall.out[ip] # NaN3
    /\ \E ip \in 1..NumPoints :
           Cardinality(SeenBy(ip)) = 1 /\ tcall.out[ip] = NaN3

\* ------------------------------------------------------------------------
\* Claims about resampling
\* ------------------------------------------------------------------------

\* the strictly increasing index sequences into 1..n
IncreasingIndices(n) == {sorted(S) : S \in SUBSET (1..n)}

\* C12: resample_points returns the columns of its input at a strictly
\* increasing sequence of indices, so every returned point is a point of the
\* input and none is returned twice, and the board data is subset at the
\* same indices.
C12_ResampleIsIncreasingSubset ==
    rs.called =>
        \E ixs \in IncreasingIndices(Len(rs.imgp[1])) :
            /\ rs.newp = columns(rs.imgp, ixs)
            /\ rs.extra.given =>
                   /\ rs.new_extra.objp = Take(rs.extra.objp, ixs)
                   /\ rs.new_extra.ids = Take(rs.extra.ids, ixs)
                   /\ \A c \in 1..Len(rs.imgp) :
                          /\ rs.new_extra.rvecs[c] = Take(rs.extra.rvecs[c], ixs)
                          /\ rs.new_extra.tvecs[c] = Take(rs.extra.tvecs[c], ixs)
            /\ ~rs.extra.given => rs.new_extra = NoExtra

\* a call with board data on three cameras in which two camera pairs picked
\* different points, one point was picked by two pairs, and a point of the
\* input was left out
C12_Witness ==
    /\ rs.called
    /\ rs.extra.given
    /\ Len(rs.imgp) = 3
    /\ rs.n_samp = 1
    /\ Len(rs.newp[1]) = 2
    /\ \E n \in 1..Len(rs.imgp[1]) :
           /\ num_cams_of(rs.imgp, n) = 3
           /\ \E k \in 1..2 : rs.newp[1][k] = rs.imgp[1][n]
    /\ \E n \in 1..Len(rs.imgp[1]) :
           /\ num_cams_of(rs.imgp, n) = 2
           /\ \A k \in 1..2 : \E c \in 1..3 : rs.newp[c][k] # rs.imgp[c][n]

\* ------------------------------------------------------------------------
\* Claims about the set-up of a bundle adjustment
\* ------------------------------------------------------------------------

\* the set-up went through and the residual function returned a vector
ResidualsReturned == bs.called /\ ~bs.raised /\ ~bs.fun_raised

\* the length of the parameter block of camera c in the parameter vector
BlockLen(c) == Len(get_params(bs.cameras[c], bs.only_extrinsics).v)

\* the columns (from 0) of the parameter block of camera c
CameraColumns(c) ==
    {SumOver([i \in 1..Len(bs.cameras) |-> BlockLen(i)], 1..(c - 1)) + k :
        k \in 0..(BlockLen(c) - 1)}

\* the number of columns the camera blocks take together
AllCameraColumns ==
    SumOver([i \in 1..Len(bs.cameras) |-> BlockLen(i)], 1..Len(bs.cameras))

\* the columns of the coordinates of point n
PointColumns(n) == {AllCameraColumns + 3 * (n - 1) + k : k \in 0..2}

\* the distinct board ids of the call
Boards == {bs.extra.ids[n] : n \in 1..Len(bs.extra.ids)}

\* the dense id of the board of point n: the rank of its id
DenseId(n) == Cardinality({b \in Boards : b < bs.extra.ids[n]})

\* the columns of the rotation and of the translation of the board with the
\* dense id b: all rotations come before all translations
RotationColumns(b) ==
    {AllCameraColumns + 3 * Len(bs.p2ds[1]) + 3 * b + k : k \in 0..2}

TranslationColumns(b) ==
    {AllCameraColumns + 3 * Len(bs.p2ds[1]) + 3 * Cardinality(Boards) + 3 * b + k :
        k \in 0..2}

\* the columns row r (from 0) of the pattern marks
Marked(r) == {k \in 0..(bs.jac.n_params - 1) : <<r, k>> \in bs.jac.ones}

\* the number of reprojection residuals: the coordinates observed
NumObserved ==
    Cardinality({ck \in (1..Len(bs.p2ds)) \X (1..Len(bs.p2ds[1])) \X (1..2) :
                    ~IsNaN(bs.p2ds[ck[1]][ck[2]][ck[3]])})

\* the residual vector at the parameter vector x0 moved by 1 in column k
ResidualsMoved(k) ==
    _error_fun_bundle(bs.cameras, MoveOne(bs.x0, k + 1, 1), bs.p2ds,
                      bs.n_cam_params, bs.extra, bs.only_extrinsics)

\* C13: whenever _error_fun_bundle returns a residual vector for the vector
\* of _initialize_params_bundle, the pattern of _jac_sparsity_bundle has one
\* row per residual and one column per parameter; the row of the r-th
\* reprojection residual marks exactly the parameter block of the observing
\* camera and the 3 coordinates of the observed point; the row of the board
\* residual of point n along axis i marks exactly the rotation and the
\* translation of the board of point n and coordinate i of point n; and a
\* residual changes only with parameters its row marks.
C13_SparsityMatchesResiduals ==
    ResidualsReturned =>
        /\ bs.jac.n_errors = Len(bs.residuals)
        /\ bs.jac.n_params = Len(bs.x0)
        /\ \A r \in 1..NumObserved :
               Marked(r - 1) = CameraColumns(good_entries(bs.p2ds)[r][1])
                                   \cup PointColumns(good_entries(bs.p2ds)[r][2])
        /\ bs.extra.given =>
               \A n \in 1..Len(bs.p2ds[1]), i \in 0..2 :
                   Marked(NumObserved + 3 * (n - 1) + i) =
                       RotationColumns(DenseId(n)) \cup TranslationColumns(DenseId(n))
                           \cup {AllCameraColumns + 3 * (n - 1) + i}
        /\ \A k \in 0..(Len(bs.x0) - 1) :
               \E moved \in {ResidualsMoved(k)} :
                   ~moved.raised =>
                       \A r \in 1..Len(bs.residuals) :
                           moved.residuals[r] # bs.residuals[r] => k \in Marked(r - 1)

\* a set-up with two boards in which one observation lacks a coordinate, so
\* that the rows of the residuals are not two per observation
C13_Witness ==
    /\ ResidualsReturned
    /\ bs.extra.given
    /\ Cardinality(Boards) = 2
    /\ NumObserved % 2 = 1
    /\ \E r \in 1..Len(bs.residuals) : ~IsNaN(bs.residuals[r]) /\ bs.residuals[r] # 0

\* the rotation and the translation the vector x holds for the board with
\* the dense id b
StoredRotation(x, b) ==
    Slice(x, AllCameraColumns + 3 * Len(bs.p2ds[1]) + 3 * b,
          AllCameraColumns + 3 * Len(bs.p2ds[1]) + 3 * b + 3)

StoredTranslation(x, b) ==
    Slice(x, AllCameraColumns + 3 * Len(bs.p2ds[1]) + 3 * Cardinality(Boards) + 3 * b,
          AllCameraColumns + 3 * Len(bs.p2ds[1]) + 3 * Cardinality(Boards) + 3 * b + 3)

\* the point n the vector x holds
StoredPoint(x, n) ==
    Slice(x, AllCameraColumns + 3 * (n - 1), AllCameraColumns + 3 * n)

\* the board residual of point n along axis k at the vector x, computed from
\* the pose x holds for the board of point n
OwnBoardResidual(x, n, k) ==
    Div(Twice(Sub(StoredPoint(x, n)[k],
                  transform_points(bs.extra.objp[n],
                                   StoredRotation(x, DenseId(n)),
                                   StoredTranslation(x, DenseId(n)))[k])),
        min_scale_of(bs.extra.objp))

\* the first point with the board of the dense id b
FirstOfBoard(b) ==
    CHOOSE n \in 1..Len(bs.extra.ids) :
        DenseId(n) = b /\ \A m \in 1..(n - 1) : DenseId(m) # b

\* the pose of board b as camera c estimated it at the board's first point,
\* taken into the frame of the group
EstimatedBy(c, b) ==
    [rvec |-> [k \in 1..3 |-> bs.extra.rvecs[c][FirstOfBoard(b)][k]
                                  - bs.cameras[c].rvec[k]],
     tvec |-> [k \in 1..3 |-> bs.extra.tvecs[c][FirstOfBoard(b)][k]
                                  - bs.cameras[c].tvec[k]]]

\* the vectors at which the board residuals are compared: x0, and x0 moved
\* in one entry of the poses
PoseTrials ==
    {bs.x0} \cup {MoveOne(bs.x0, k, 1) :
                     k \in (AllCameraColumns + 3 * Len(bs.p2ds[1]) + 1)..Len(bs.x0)}

\* C14: with board data, the ids are remapped to 0..B-1 keeping equality
\* and order; the parameter vector holds, after the camera blocks and the
\* points, one rotation triple per distinct board id and then one
\* translation triple per distinct board id, each the pose some camera that
\* sees the board's first point estimated (zero without estimates); and the
\* board residual of every point is computed from the pose stored for that
\* point's own board.
C14_OnePosePerBoard ==
    (bs.called /\ bs.extra.given /\ ~bs.raised) =>
        /\ \A n \in 1..Len(bs.extra.ids) : bs.extra.ids_map[n] = DenseId(n)
        /\ {bs.extra.ids_map[n] : n \in 1..Len(bs.extra.ids)}
               = 0..(Cardinality(Boards) - 1)
        /\ \A n, m \in 1..Len(bs.extra.ids) :
               /\ (bs.extra.ids[n] = bs.extra.ids[m])
                      <=> (bs.extra.ids_map[n] = bs.extra.ids_map[m])
               /\ (bs.extra.ids[n] < bs.extra.ids[m])
                      <=> (bs.extra.ids_map[n] < bs.extra.ids_map[m])
        /\ Len(bs.x0) = AllCameraColumns + 3 * Len(bs.p2ds[1])
                            + 6 * Cardinality(Boards)
        /\ \A b \in 0..(Cardinality(Boards) - 1) :
               IF bs.extra.has_rt
               THEN \E c \in 1..Len(bs.cameras) :
                        /\ ~IsNaN(bs.p2ds[c][FirstOfBoard(b)][1])
                        /\ StoredRotation(bs.x0, b) = EstimatedBy(c, b).rvec
                        /\ StoredTranslation(bs.x0, b) = EstimatedBy(c, b).tvec
               ELSE /\ StoredRotation(bs.x0, b) = Zeros(3)
                    /\ StoredTranslation(bs.x0, b) = Zeros(3)
        /\ ~bs.fun_raised =>
               \A x \in PoseTrials :
                   \E r \in {_error_fun_bundle(bs.cameras, x, bs.p2ds,
                                 bs.n_cam_params, bs.extra, bs.only_extrinsics)} :
                       /\ ~r.raised
                       /\ \A n \in 1..Len(bs.p2ds[1]), k \in 1..3 :
                              r.residuals[NumObserved + 3 * (n - 1) + k]
                                  = OwnBoardResidual(x, n, k)

\* a set-up with estimated poses of two boards whose ids fall from the first
\* point to the second, in which the pose of a board could be taken from
\* either camera and a board residual is a number other than 0
C14_Witness ==
    /\ ResidualsReturned
    /\ bs.extra.has_rt
    /\ Cardinality(Boards) = 2
    /\ bs.extra.ids[1] > bs.extra.ids[2]
    /\ \E b \in 0..1 :
           /\ \A c \in 1..2 : ~IsNaN(bs.p2ds[c][FirstOfBoard(b)][1])
           /\ StoredRotation(bs.x0, b) = EstimatedBy(2, b).rvec
    /\ \E n \in 1..Len(bs.p2ds[1]), k \in 1..3 :
           /\ ~IsNaN(bs.residuals[NumObserved + 3 * (n - 1) + k])
           /\ bs.residuals[NumObserved + 3 * (n - 1) + k] # 0

\* ------------------------------------------------------------------------
\* Claims about bundle_adjust_iter
\* ------------------------------------------------------------------------

\* a round of the loop has set mu and its sample, and the cameras are still
\* those it scored: its solve is next, or the round has left the loop
RoundScored ==
    \/ it.pc = "solve"
    \/ it.pc = "final" /\ it.i < it.n_iters

\* the mean reprojection error of every point of the round, with the cameras
\* of the round
RoundErrors ==
    reprojection_error_mean(it.cameras,
        triangulate(it.cameras, it.p2ds, n_points_of(it.p2ds), TRUE, "nan").out,
        it.p2ds)

\* the errors of the camera pair (i, j) in the round: per point both see, the
\* mean of the two residual norms
PairErrors(i, j) == err_subset_mean(errors_full_of(it.cameras, it.p2ds), i, j)

CameraPairs == {<<i, j>> \in (1..Len(it.cameras)) \X (1..Len(it.cameras)) : i < j}

\* the pairs that share a point, and those that share more than min_points
SharingPairs == {p \in CameraPairs : Len(PairErrors(p[1], p[2])) > 0}

LargePairs == {p \in CameraPairs : Len(PairErrors(p[1], p[2])) > MinPoints}

\* the q-th percentile of a pair's errors
PairPercentile(p, q) == np_percentile(PairErrors(p[1], p[2]), q)

\* column k of the sample is a point of the round with an error below mu
HandedBelowMu(k) ==
    \E n \in 1..n_points_of(it.p2ds) :
        /\ \A c \in 1..Len(it.p2ds) : it.p2ds[c][n] = it.p2ds_samp[c][k]
        /\ Less(RoundErrors[n], it.mu)

\* the sample of a round holds only points with an error below mu
SampleBelowMu == \A k \in 1..n_points_of(it.p2ds_samp) : HandedBelowMu(k)

\* the solve of a round is given the sample of the round and nothing else
SolveGivenSample ==
    (/\ it.solves # <<>>
     /\ it.solves[Len(it.solves)].kind = "loop"
     /\ it.pc = "round" \/ it.pc = "raised" \/ (it.pc = "final" /\ it.i = it.n_iters))
    => /\ it.solves[Len(it.solves)].p2ds = it.p2ds_samp
       /\ it.solves[Len(it.solves)].mu = it.mu

\* C15: in every round mu lies between the 15th and the 75th percentiles
\* observed over the errors of the camera pairs of the round, and the sample
\* of the round holds only points with a mean error below mu
C15_MuWithinObservedPercentiles ==
    RoundScored =>
        /\ \E p \in SharingPairs : ~Less(it.mu, PairPercentile(p, 15))
        /\ \E p \in SharingPairs : ~Less(PairPercentile(p, 75), it.mu)
        /\ SampleBelowMu

\* what the rounds do keep: when some camera pair shares more than
\* min_points points, mu lies between the largest 15th and the largest 75th
\* percentile of the errors of those pairs; without such a pair mu is 0 and
\* no point is handed on.  Either way the sample of the round holds only
\* points with a mean error below mu, and the solve is given that sample
MuWithinPercentilesOfLargePairs ==
    /\ RoundScored =>
        /\ LargePairs # {} =>
              /\ \A p \in LargePairs : ~Less(it.mu, PairPercentile(p, 15))
              /\ \E p \in LargePairs : ~Less(PairPercentile(p, 75), it.mu)
              /\ ~IsNaN(it.mu)
        /\ LargePairs = {} => it.mu = 0 /\ n_points_of(it.p2ds_samp) = 0
        /\ SampleBelowMu
    /\ SolveGivenSample

\* the solves made inside the loop, and those made after it
LoopSolves == {k \in 1..Len(it.solves) : it.solves[k].kind = "loop"}

FinalSolves == {k \in 1..Len(it.solves) : it.solves[k].kind = "final"}

\* the loop was left by its break: rounds are left over
StoppedEarly == it.pc \in {"final", "done"} /\ it.i < it.n_iters

\* the solves of the loop are those of the rounds 0 .. i-1 in their order,
\* none of them after the final solve, and i never exceeds n_iters
LoopSolvesInOrder ==
    /\ it.i <= it.n_iters
    /\ Cardinality(LoopSolves) = it.i
    /\ \A k \in LoopSolves : it.solves[k].i = k - 1 /\ it.solves[k].loss = "linear"

\* a round goes on to its solve only with a median error that is not below
\* error_threshold, and the round that breaks has made no solve
BreakBeforeSolve ==
    /\ it.pc = "solve" => ~Less(np_median(RoundErrors), it.error_threshold)
    /\ (it.pc = "final" /\ it.i < it.n_iters) =>
           /\ Less(np_median(RoundErrors), it.error_threshold)
           /\ \A k \in LoopSolves : it.solves[k].i < it.i

\* a call that returns has made one final solve, its last, with linear loss
\* and mu at least end_mu; a call that is under way has made none
OneFinalSolve ==
    /\ it.pc = "done" =>
           /\ Cardinality(FinalSolves) = 1
           /\ it.solves[Len(it.solves)].kind = "final"
           /\ it.solves[Len(it.solves)].loss = "linear"
           /\ ~IsNaN(it.solves[Len(it.solves)].mu)
           /\ it.solves[Len(it.solves)].mu >= it.end_mu
    /\ it.pc \in {"round", "solve", "final"} => FinalSolves = {}

\* C16: at most n_iters solves are made inside the loop, each with linear
\* loss; a round whose median error is below error_threshold leaves the loop
\* before its solve; and a call that returns, after a break or after its last
\* round, has made exactly one final solve, after the loop, whose mu is at
\* least end_mu
C16_LoopThenOneFinalSolve ==
    /\ LoopSolvesInOrder
    /\ BreakBeforeSolve
    /\ OneFinalSolve

\* a call of two rounds that has returned after one solve in the loop: the
\* second round broke, and the final solve followed
C16_Witness ==
    /\ it.pc = "done"
    /\ it.n_iters = 2
    /\ it.i = 1
    /\ Len(it.solves) = 2
    /\ it.solves[2].mu > it.end_mu

\* the columns of a CxNx2 array
ColumnsOf(p2ds) ==
    {[c \in 1..Len(p2ds) |-> p2ds[c][n]] : n \in 1..n_points_of(p2ds)}

\* the working set of the call is a draw from the full input
DrawnFromFull ==
    it.p2ds \in {r.newp : r \in resample_points(it.given, NoExtra, it.n_samp_full)}

\* the points of the input that two cameras see
SeenByTwo ==
    {[c \in 1..Len(it.given) |-> it.given[c][n]] :
        n \in {k \in 1..n_points_of(it.given) : num_cams_of(it.given, k) >= 2}}

\* C17: while the call runs the array it reads is the caller's tensor as it
\* was given; the working set of every round and of the final solve is a
\* draw from that full tensor, so that with n_samp_full no smaller than the
\* tensor every point two cameras see is in it, whatever the rounds before
\* have rejected; and every solve is given points of the tensor only
C17_EveryRoundDrawsFromFullInput ==
    /\ it.pc \in {"round", "solve", "final", "done"} =>
           /\ it.p2ds_full = it.given
           /\ DrawnFromFull
           /\ it.n_samp_full >= n_points_of(it.given) => ColumnsOf(it.p2ds) = SeenByTwo
    /\ \A k \in 1..Len(it.solves) : ColumnsOf(it.solves[k].p2ds) \subseteq SeenByTwo

\* a call that has returned, in which a point the first round rejected (the
\* round's sample size is no limit) was given to a later solve
C17_Witness ==
    /\ it.pc = "done"
    /\ it.n_samp_iter >= n_points_of(it.given)
    /\ Len(it.solves) >= 2
    /\ it.given = it.p2ds_full
    /\ \E k \in 2..Len(it.solves) :
           ColumnsOf(it.solves[k].p2ds) \ ColumnsOf(it.solves[1].p2ds) # {}

\* ------------------------------------------------------------------------
\* Claims about what bundle_adjust leaves behind
\* ------------------------------------------------------------------------

\* the vector least_squares returned: the call logs it after the vectors it
\* evaluated
ReturnedVector == bevals[Len(bevals)]

\* the vector the residual function evaluated last
LastEvaluated == bevals[Len(bevals) - 1]

\* block i of the returned vector
ReturnedBlock(i) ==
    Slice(ReturnedVector, (i - 1) * bx0.n_cam_params, i * bx0.n_cam_params)

\* the mean over the points of the mean reprojection error, with the cameras
\* as they are now
MeanErrorNow ==
    np_mean(reprojection_error_mean(gcams,
                triangulate(gcams, bargs.p2ds, NumBAPoints, TRUE, "nan").out,
                bargs.p2ds))

\* C18: when bundle_adjust returns, camera i reads back block i of the
\* vector the solver returned, whichever vector the residual function
\* evaluated last, and the value returned is the mean reprojection error of
\* the cameras as committed
C18_ReturnedVectorCommitted ==
    bpc = "done" =>
        /\ \A i \in 1..Len(gcams) :
               get_params(gcams[i], bargs.only_extrinsics).v = ReturnedBlock(i)
        /\ berr = <<MeanErrorNow>>

\* a call that has returned a vector other than the last one evaluated, one
\* that gives a camera other parameters, with an error that is a number
C18_Witness ==
    /\ bpc = "done"
    /\ \E i \in 1..Len(gcams) :
           ReturnedBlock(i) # Slice(LastEvaluated, (i - 1) * bx0.n_cam_params,
                                    i * bx0.n_cam_params)
    /\ ~IsNaN(berr[1])

\* ------------------------------------------------------------------------
\* Claims about calls with a tensor of the wrong number of rows
\* ------------------------------------------------------------------------

\* a call has ended whose tensor had another number of rows than the group
\* has cameras
MismatchedCall == sh.pc = "returned" /\ sh.rows # Len(sh.entry)

\* the operations that begin with the assert on the shape of the tensor
AssertedOps ==
    {"triangulate", "triangulate_weighted", "triangulate_possible",
     "triangulate_ransac", "optim_points", "optim_points_possible",
     "triangulate_optim", "bundle_adjust"}

\* C19: a call of any of the operations with a tensor whose number of rows
\* differs from the number of cameras raises, and the cameras are then as
\* they were when it was called; bundle_adjust_iter raises before its first
\* solve
C19_MismatchFailsBeforeAnyChange ==
    /\ MismatchedCall => sh.raised /\ sh.cameras = sh.entry
    /\ (it.pc # "idle" /\ Len(it.given) # Len(it.cameras)) =>
           it.pc = "raised" /\ it.solves = <<>>

\* what does hold: a mismatch always ends in an exception, and the
\* operations that begin with the assert leave the cameras as they were
MismatchAlwaysRaises ==
    /\ MismatchedCall => sh.raised
    /\ (MismatchedCall /\ sh.op \in AssertedOps) => sh.cameras = sh.entry
    /\ (it.pc # "idle" /\ Len(it.given) # Len(it.cameras)) =>
           it.pc = "raised" /\ it.solves = <<>> /\ it.cameras = IterGroup(FALSE)

\* ------------------------------------------------------------------------
\* Claims about calibrate_rows
\* ------------------------------------------------------------------------

\* the calibrate_rows call has ended, and some camera of the group it was
\* called on has no frame size
SizelessCallEnded ==
    /\ cal.pc \in {"done", "raised"}
    /\ \E i \in 1..Len(cal.entry) : get_size(cal.entry[i]) = <<>>

\* the matrix and the distortion of camera i are those it had at the call
IntrinsicsAsAtEntry(i) ==
    /\ cal.cameras[i].matrix = cal.entry[i].matrix
    /\ cal.cameras[i].dist = cal.entry[i].dist

\* C20: calibrate_rows called on a group in which some camera has no frame
\* size raises, and the matrix and the distortion of every camera of the
\* group are then as they were at the call, wherever the size-less camera
\* stands in the group
C20_SizelessCameraFailsBeforeAnyChange ==
    SizelessCallEnded =>
        /\ cal.pc = "raised"
        /\ \A i \in 1..Len(cal.cameras) : IntrinsicsAsAtEntry(i)

\* what does hold: such a call raises before bundle_adjust_iter, with the
\* extrinsics of every camera untouched and with the intrinsics of the
\* camera the loop stopped at and of those behind it untouched; nothing is
\* changed when init_intrinsics is off or the loop stopped at the first
\* camera
SizelessCameraRaisesInLoop ==
    SizelessCallEnded =>
        /\ cal.pc = "raised"
        /\ cal.raised_by \in {"rows", "size", "detections"}
        /\ \A i \in 1..Len(cal.cameras) :
               /\ cal.cameras[i].rvec = cal.entry[i].rvec
               /\ cal.cameras[i].tvec = cal.entry[i].tvec
               /\ i >= cal.k => IntrinsicsAsAtEntry(i)
        /\ (~cal.init_intrinsics \/ cal.k = 1) => cal.cameras = cal.entry

\* ------------------------------------------------------------------------
\* Claims about dump and load
\* ------------------------------------------------------------------------

\* a group has been dumped and the file loaded
DumpLoaded == fcall.pc = "returned" /\ fcall.name = "load"

\* the two cameras agree in name, size, matrix, distortion, rotation,
\* translation and class
SameCamera(a, b) ==
    /\ a.name = b.name
    /\ a.size = b.size
    /\ a.matrix = b.matrix
    /\ a.dist = b.dist
    /\ a.rvec = b.rvec
    /\ a.tvec = b.tvec
    /\ a.kind = b.kind

\* C21: the group loaded from the file a group was dumped to has as many
\* cameras as the dumped group, and its camera i agrees with camera i of
\* the dumped group in name, size, matrix, distortion, rotation,
\* translation and class, for a group of any size
C21_DumpLoadKeepsCamerasInOrder ==
    DumpLoaded =>
        /\ Len(fcall.out.cameras) = Len(fcall.args.cameras)
        /\ \A i \in 1..Len(fcall.args.cameras) :
               SameCamera(fcall.out.cameras[i], fcall.args.cameras[i])

\* what does hold: the loaded group has the cameras of the dumped group,
\* each once, in the order of their keys as strings, which is the order of
\* the group when it has at most 10 cameras; the metadata is that of the
\* dumped group
DumpLoadKeepsCamerasUpToTen ==
    DumpLoaded =>
        /\ Len(fcall.out.cameras) = Len(fcall.args.cameras)
        /\ \A i \in 1..Len(fcall.args.cameras) :
               Cardinality({j \in 1..Len(fcall.out.cameras) :
                   SameCamera(fcall.out.cameras[j], fcall.args.cameras[i])}) = 1
        /\ Len(fcall.args.cameras) <= 10 =>
               \A i \in 1..Len(fcall.args.cameras) :
                   SameCamera(fcall.out.cameras[i], fcall.args.cameras[i])
        /\ fcall.out.metadata = fcall.args.metadata

\* ------------------------------------------------------------------------
\* Claims about the form of the intrinsic matrix
\* ------------------------------------------------------------------------

\* m is upper-triangular with bottom-right entry 1
UpperTriangularUnit(m) ==
    /\ m[2][1] = 0
    /\ m[3][1] = 0
    /\ m[3][2] = 0
    /\ m[3][3] = 1

\* C22: after any sequence of operations on a camera its intrinsic matrix is
\* upper-triangular with bottom-right entry 1
C22_MatrixUpperTriangularUnit == UpperTriangularUnit(cam.matrix)

\* what does hold: every operation other than set_camera_matrix, which
\* stores the matrix it is given, leaves a matrix of that form in that form
FormKeptByOtherOperations ==
    [][(UpperTriangularUnit(cam.matrix) /\ op'.name # "set_camera_matrix")
           => UpperTriangularUnit(cam'.matrix)]_vars

\* ------------------------------------------------------------------------
\* Claims about which points resample_points returns
\* ------------------------------------------------------------------------

\* the points of the input among the returned columns
ReturnedPoints ==
    {n \in 1..Len(rs.imgp[1]) :
        \E k \in 1..Len(rs.newp[1]) :
            \A c \in 1..Len(rs.imgp) : rs.newp[c][k] = rs.imgp[c][n]}

\* the selections the pair (i, j) may make: at most n_samp of the points both
\* cameras see, all of them when there are at most n_samp, and none left
\* out that more cameras see than see a selected one
SelectionsOfPair(i, j) ==
    {P \in SUBSET seen_by_both(rs.imgp, i, j) :
        /\ Cardinality(P) <= rs.n_samp
        /\ Cardinality(seen_by_both(rs.imgp, i, j)) <= rs.n_samp =>
               P = seen_by_both(rs.imgp, i, j)
        /\ \A p \in P, q \in seen_by_both(rs.imgp, i, j) \ P :
               num_cams_of(rs.imgp, q) <= num_cams_of(rs.imgp, p)}

\* the camera pairs of the call
ResamplePairs ==
    {pr \in (1..Len(rs.imgp)) \X (1..Len(rs.imgp)) : pr[1] < pr[2]}

\* C23: the returned points are the union, over the camera pairs, of a
\* selection per pair of at most n_samp of the points both cameras see (all
\* of them when there are at most n_samp) that leaves out no shared point
\* seen by more cameras than a selected one; no returned point is seen by
\* fewer than 2 cameras
C23_ResampleSelectsPerPairByVisibility ==
    rs.called =>
        /\ \E sel \in [ResamplePairs -> SUBSET (1..Len(rs.imgp[1]))] :
               /\ \A pr \in ResamplePairs : sel[pr] \in SelectionsOfPair(pr[1], pr[2])
               /\ ReturnedPoints = UNION {sel[pr] : pr \in ResamplePairs}
        /\ Len(rs.newp[1]) = Cardinality(ReturnedPoints)
        /\ \A n \in ReturnedPoints : num_cams_of(rs.imgp, n) >= 2

\* a call with n_samp = 1 on three cameras: the first two share a point all
\* three see and a point only they see, and the second is left out; a point
\* that one camera alone sees is in the input
C23_Witness ==
    /\ rs.called
    /\ rs.n_samp = 1
    /\ Len(rs.imgp) = 3
    /\ \E p, q \in seen_by_both(rs.imgp, 1, 2) :
           /\ num_cams_of(rs.imgp, p) = 3
           /\ num_cams_of(rs.imgp, q) = 2
           /\ p \in ReturnedPoints
           /\ q \notin ReturnedPoints
    /\ \E n \in 1..Len(rs.imgp[1]) : num_cams_of(rs.imgp, n) = 1

\* ------------------------------------------------------------------------
\* Claims about the sparsity pattern with smoothness rows
\* ------------------------------------------------------------------------

\* the set-up with make_jac_sparsity_with_smoothness has been made
SmoothnessCalled ==
    /\ fcall.pc \in {"returned", "raised"}
    /\ fcall.name = "make_jac_sparsity_with_smoothness"

\* C24: for every number of frames and keypoints from 1 on, every validity
\* mask, smoothness weight and smoothness_derivative,
\* make_jac_sparsity_with_smoothness returns a pattern with as many rows as
\* fun_with_smoothness returns residuals and as many columns as the packed
\* vector has entries
C24_SmoothPatternMatchesResiduals ==
    SmoothnessCalled =>
        /\ fcall.pc = "returned"
        /\ fcall.out.n_rows = fcall.out.n_residuals
        /\ fcall.out.n_params = fcall.out.n_x0

\* what does hold: a pattern that is returned has the rows of the residuals
\* and the columns of the packed vector, and one is returned but for a
\* second derivative over a single frame
SmoothPatternMatchesFromTwoFrames ==
    SmoothnessCalled =>
        /\ fcall.pc = "returned" =>
               /\ fcall.out.n_rows = fcall.out.n_residuals
               /\ fcall.out.n_params = fcall.out.n_x0
        /\ fcall.pc = "raised" <=>
               /\ fcall.args.T = 1
               /\ lower(fcall.args.smoothness_derivative) = "second"
               /\ smoothing(fcall.args.smoothness_weight)

\* ------------------------------------------------------------------------
\* Claims about interpolate_data
\* ------------------------------------------------------------------------

\* interpolate_data has returned
Interpolated == fcall.pc = "returned" /\ fcall.name = "interpolate_data"

\* the positions of the valid entries of the series given
ValidAt == {i \in 1..Len(fcall.args.vals) : ~IsNaN(fcall.args.vals[i])}

\* the valid positions nearest to i on its left and on its right
LeftOf(i) == CHOOSE l \in ValidAt : l < i /\ \A m \in ValidAt : m < i => m <= l

RightOf(i) == CHOOSE r \in ValidAt : r > i /\ \A m \in ValidAt : m > i => m >= r

\* C27: interpolate_data returns a series of the length given without a
\* missing entry; a valid entry is unchanged, a missing entry between two
\* valid ones lies on the straight line between its nearest valid
\* neighbours, a leading or trailing missing entry has the value of the
\* nearest valid entry, and a series without a valid entry becomes zeros
C27_InterpolateFillsMissing ==
    Interpolated =>
        /\ Len(fcall.out.out) = Len(fcall.args.vals)
        /\ \A i \in 1..Len(fcall.args.vals) :
               /\ ~IsNaN(fcall.out.out[i])
               /\ i \in ValidAt => fcall.out.out[i] = fcall.args.vals[i]
               /\ ValidAt = {} => fcall.out.out[i] = 0
               /\ (i \notin ValidAt /\ ValidAt # {}) =>
                      IF \A m \in ValidAt : m > i
                      THEN fcall.out.out[i] = fcall.args.vals[RightOf(i)]
                      ELSE IF \A m \in ValidAt : m < i
                      THEN fcall.out.out[i] = fcall.args.vals[LeftOf(i)]
                      ELSE fcall.out.out[i] * (RightOf(i) - LeftOf(i))
                               = fcall.args.vals[LeftOf(i)] * (RightOf(i) - i)
                                 + fcall.args.vals[RightOf(i)] * (i - LeftOf(i))

\* a series of four entries, the two in the middle missing between 0 and 36:
\* they come out as 12 and 24
C27_Witness ==
    /\ Interpolated
    /\ fcall.args.vals = <<0, NaN, NaN, 36>>
    /\ fcall.out.out = <<0, 12, 24, 36>>

\* a series whose first and last entries are missing comes out with the end
\* values repeated, and one without a valid entry as zeros
InterpolateEndsWitness ==
    /\ Interpolated
    /\ \/ fcall.args.vals = <<NaN, 12, 36, NaN>> /\ fcall.out.out = <<12, 12, 36, 36>>
       \/ fcall.args.vals = <<NaN, NaN>> /\ fcall.out.out = <<0, 0>>

\* ------------------------------------------------------------------------
\* Claims about the fixed frames of optim_points
\* ------------------------------------------------------------------------

\* optim_points is under way or has returned, called with n_fixed > 0
OptimWithFixed ==
    /\ fcall.name = "optim_points"
    /\ fcall.pc \in {"solving", "returned"}
    /\ fcall.args.n_fixed > 0

\* the frames that are fixed: the first n_fixed of the frames given
FixedFrames == 1..Min(fcall.args.n_fixed, Len(fcall.args.p3ds))

\* C25: optim_points called with n_fixed > 0 returns in its first n_fixed
\* frames the initial 3D points interpolated over time, whatever the solver
\* returned for them, and every evaluation of the residual function
\* computes its residuals with those frames at these values
C25_FixedFramesKeepInterpolatedPoints ==
    OptimWithFixed =>
        /\ \A e \in 1..Len(fcall.out.evals), t \in FixedFrames :
               fcall.out.evals[e].p3ds[t] = interpolate_frames(fcall.args.p3ds)[t]
        /\ fcall.pc = "returned" =>
               /\ Len(fcall.out.p3ds_new2) = Len(fcall.args.p3ds)
               /\ \A t \in FixedFrames :
                      fcall.out.p3ds_new2[t] = interpolate_frames(fcall.args.p3ds)[t]
               /\ \A t \in 1..Len(fcall.args.p3ds) : t \notin FixedFrames =>
                      fcall.out.p3ds_new2[t]
                          = reshape_frames(fcall.out.x, Len(fcall.args.p3ds), 1)[t]

\* a call with one fixed frame out of three whose first frame was missing:
\* the solver evaluated and returned a vector that differs from the
\* interpolated points in the first frame and in the last, and the result
\* has the interpolated first frame and the solver's last frame
C25_Witness ==
    /\ OptimWithFixed
    /\ fcall.pc = "returned"
    /\ fcall.args.n_fixed = 1
    /\ Len(fcall.args.p3ds) = 3
    /\ fcall.args.p3ds[1] = <<NaN3>>
    /\ fcall.out.x = MoveAll(fcall.out.x0, 12)
    /\ \E e \in 1..Len(fcall.out.evals) : fcall.out.evals[e].params = fcall.out.x
    /\ fcall.out.p3ds_new2[1] = fcall.out.p3ds_intp[1]
    /\ fcall.out.p3ds_new2[3] # fcall.out.p3ds_intp[3]

\* ------------------------------------------------------------------------
\* Claims about fix_init_points_and_weights
\* ------------------------------------------------------------------------

\* fix_init_points_and_weights has returned
FixReturned == fcall.pc = "returned" /\ fcall.name = "fix_init_points_and_weights"

\* the arrays given, as they were at the call
GivenPoints == fcall.args.heap[1]

GivenWeights == fcall.args.heap[2]

\* the point of frame t and keypoint k was given with a missing coordinate
GivenMissing(t, k) == \E x \in 1..3 : IsNaN(GivenPoints[t][k][x])

\* C26: fix_init_points_and_weights leaves the arrays it is given as they
\* were; the points it returns have 0 where a coordinate was missing and
\* the given value elsewhere; the weights it returns are None when none
\* were given, and else are 0 for every camera at every frame and keypoint
\* whose point had a missing coordinate and the given weight elsewhere
C26_FixReplacesMissingAndKeepsInputs ==
    FixReturned =>
        /\ fcall.out.heap[1] = GivenPoints
        /\ fcall.out.heap[2] = GivenWeights
        /\ fcall.out.points \notin {1, 2}
        /\ \A t \in 1..Len(GivenPoints), k \in 1..Len(GivenPoints[1]), x \in 1..3 :
               fcall.out.heap[fcall.out.points][t][k][x]
                   = IF IsNaN(GivenPoints[t][k][x]) THEN 0
                     ELSE GivenPoints[t][k][x]
        /\ fcall.args.weights = 0 => fcall.out.weights = 0
        /\ fcall.args.weights # 0 =>
               /\ fcall.out.weights \notin {0, 1, 2}
               /\ \A c \in 1..2, t \in 1..Len(GivenPoints), k \in 1..Len(GivenPoints[1]) :
                      fcall.out.heap[fcall.out.weights][c][t][k]
                          = IF GivenMissing(t, k) THEN 0 ELSE GivenWeights[c][t][k]

\* a call with weights in which one point misses one coordinate and another
\* is whole: the weights of the first are 0 where they were not, those of
\* the second are as given, and the arrays given still hold the missing
\* coordinate and the weights
C26_Witness ==
    /\ FixReturned
    /\ fcall.args.weights = 2
    /\ \E t \in 1..Len(GivenPoints), k \in 1..Len(GivenPoints[1]) :
           /\ GivenPoints[t][k] = <<1, NaN, 3>>
           /\ fcall.out.heap[1][t][k] = <<1, NaN, 3>>
           /\ fcall.out.heap[fcall.out.points][t][k] = <<1, 0, 3>>
           /\ GivenWeights[2][t][k] # 0
           /\ fcall.out.heap[2][2][t][k] # 0
           /\ fcall.out.heap[fcall.out.weights][2][t][k] = 0
    /\ \E t \in 1..Len(GivenPoints), k \in 1..Len(GivenPoints[1]) :
           /\ ~GivenMissing(t, k)
           /\ fcall.out.heap[fcall.out.weights][2][t][k] = GivenWeights[2][t][k]

\* ------------------------------------------------------------------------
\* Claims about the sparsity pattern of optim_points_possible
\* ------------------------------------------------------------------------

\* the set-up of optim_points_possible has been made
PossibleCalled == fcall.pc = "returned" /\ fcall.name = "optim_points_possible"

\* some camera has, for some joint in some frame, no first candidate but a
\* later one
FirstMissingLaterPresent ==
    \E e \in entries_of(fcall.args.good) :
        /\ ~fcall.args.good[e[1]][e[2]][e[3]][1]
        /\ \E p \in 2..MaxPossible : fcall.args.good[e[1]][e[2]][e[3]][p]

\* C28: for every pattern of missing candidates the sparsity pattern of
\* optim_points_possible has as many rows as the residual function returns
\* residuals and as many columns as the initial vector has entries
C28_PossiblePatternMatchesResiduals ==
    PossibleCalled =>
        /\ fcall.out.n_errors = fcall.out.n_residuals
        /\ fcall.out.n_params = fcall.out.n_x0

\* what does hold: the columns are those of the initial vector, and the
\* rows are those of the residuals when no first candidate is missing
\* where a later one is present; each such entry costs the pattern two rows
PossiblePatternMatchesWithFirstCandidates ==
    PossibleCalled =>
        /\ fcall.out.n_params = fcall.out.n_x0
        /\ ~FirstMissingLaterPresent => fcall.out.n_errors = fcall.out.n_residuals
        /\ FirstMissingLaterPresent => fcall.out.n_errors < fcall.out.n_residuals

\* ------------------------------------------------------------------------
\* Claims about the arrays triangulate_possible returns
\* ------------------------------------------------------------------------

\* triangulate_possible has returned its arrays
PossibleReturned == tcall.name = "triangulate_possible" /\ ~tcall.raised

\* the candidates of camera c the selection mask marks for point ip
MarkedCandidates(c, ip) ==
    {k \in 1..Len(tcall.picked_vals[c][ip]) : tcall.picked_vals[c][ip][k]}

\* C29: in the result of triangulate_possible, for every point, the mask
\* marks at most one candidate per camera and only candidates that are not
\* missing in the input; the returned 2D point of a camera is not missing
\* iff a candidate of that camera is marked, and is that candidate; the 3D
\* output is not missing only if a candidate is marked; and the group holds
\* the cameras it had before the search
C29_MaskAndPointsAgree ==
    PossibleReturned =>
        /\ gcams = TriCameras
        /\ \A ip \in 1..NumPoints :
           /\ \A c \in 1..Len(gcams) :
              /\ Cardinality(MarkedCandidates(c, ip)) <= 1
              /\ \A k \in MarkedCandidates(c, ip) :
                     /\ ~IsNaN(obs[c][ip][k][1])
                     /\ tcall.points_2d[c][ip] = obs[c][ip][k]
              /\ ~IsNaN(tcall.points_2d[c][ip][1]) <=> MarkedCandidates(c, ip) # {}
           /\ tcall.out[ip] # NaN3 => \E c \in 1..Len(gcams) : MarkedCandidates(c, ip) # {}

\* a call that returned with, for the first point, the second candidate of
\* the first camera marked, its first one present too, and a camera with a
\* candidate left unmarked, and with a point that has no 3D output
C29_Witness ==
    /\ PossibleReturned
    /\ MarkedCandidates(1, 1) = {2}
    /\ ~IsNaN(obs[1][1][1][1])
    /\ \E c \in 2..Len(gcams) : ~IsNaN(obs[c][1][1][1]) /\ MarkedCandidates(c, 1) = {}
    /\ tcall.out[1] # NaN3
    /\ \E ip \in 2..NumPoints : tcall.out[ip] = NaN3

\* ------------------------------------------------------------------------
\* Claims about bundle_adjust when the solver raises
\* ------------------------------------------------------------------------

\* the solver call of bundle_adjust raised after the residual function ran
SolverRaised == bpc = "raised" /\ bevals # <<>>

SolverRaiseKeepsLastEvaluation ==
    bpc = "raised" =>
        IF bevals = <<>> THEN gcams = bentry
        ELSE gcams = set_all_params(bentry, bevals[Len(bevals)],
                         bx0.n_cam_params, bargs.only_extrinsics, 1).cameras

\* ------------------------------------------------------------------------
\* Claims about bundle adjustment and derived groups
\* ------------------------------------------------------------------------

\* C1: bundle_adjust called with only_extrinsics=True returns with the
\* intrinsic matrix and the distortion vector of every camera, pinhole or
\* fisheye, as they were when it was called.
C1_OnlyExtrinsicsKeepsIntrinsics ==
    (bpc = "done" /\ bargs.only_extrinsics) =>
        \A i \in 1..Len(gcams) :
            /\ gcams[i].matrix = bentry[i].matrix
            /\ gcams[i].dist = bentry[i].dist

\* C2: a group derived by subset_cameras or subset_cameras_names shares no
\* mutable state with its parent: whatever is done to one of them (camera
\* parameters, names, sizes, metadata entries), the other reads as it did
\* after the last operation on it.
C2_SubGroupSharesNothing ==
    (sub.via = "subset") =>
        /\ Observable(parent, dicts) = seen.parent
        /\ Observable(sub, dicts) = seen.sub

\* C5: in the vector built for bundle_adjust the parameters of camera i are
\* the entries [i*n, (i+1)*n), n the one block size, for every camera of every
\* group, the flattened 3D points follow them, and the residual function and
\* the commit set every camera from its own parameters without raising.
C5_CameraBlocksAligned ==
    /\ bpc # "raised"
    /\ (bpc \in {"solving", "done"}) =>
           /\ \A i \in 1..Len(bentry) :
                  Slice(bx0.x0, (i - 1) * bx0.n_cam_params,
                        i * bx0.n_cam_params)
                      = get_params(bentry[i], bargs.only_extrinsics).v
           /\ Slice(bx0.x0, Len(bentry) * bx0.n_cam_params, Len(bx0.x0))
                  = ravel(bx0.p3ds)
           /\ p3ds_test(bx0.x0, Len(bentry), bx0.n_cam_params, NumBAPoints)
                  = bx0.p3ds

====
